---------------------------- MODULE Spec2Model ----------------------------
(***************************************************************************)
(* doubledb: a document store on an ordered key-value store (Level) that   *)
(* indexes every field of every document and keeps per-value counters.     *)
(*                                                                         *)
(* Strings are sequences of code points; Level orders keys bytewise, which *)
(* for UTF-8 is the order of the code point sequences.  Document bodies    *)
(* are tagged value trees; JSON.stringify / JSON.parse, String(value),     *)
(* Number(string) and number.toString() are modelled by what they do.      *)
(***************************************************************************)
EXTENDS Integers, Sequences, FiniteSets, TLC

VARIABLES store,    \* the Level database: key (string) -> value
          genUsed,  \* the ids uuid() has produced so far
          last,     \* the call that completed last, and what it returned
          faults,   \* how many writes the store has rejected so far
          flight    \* the call in flight and the writes it has still to make

vars == <<store, genUsed, last, faults, flight>>

---------------------------------------------------------------------------
(* String literals of the source, as code point sequences.                 *)

FirstUnicodeCharacter == <<0>>
LastUnicodeCharacter == <<1114111>>

SIndexes == <<105, 110, 100, 101, 120, 101, 115>>        \* "indexes"
SCounts == <<99, 111, 117, 110, 116, 115>>               \* "counts"
STotal == <<95, 95, 116, 111, 116, 97, 108, 95, 95>>     \* "__total__"
SDocuments == <<100, 111, 99, 117, 109, 101, 110, 116, 115>> \* "documents"
SDot == <<46>>                                           \* "."
SEq == <<61>>                                            \* "="
SBar == <<124>>                                          \* "|"
SComma == <<44>>                                         \* ","
SId == <<105, 100>>                                      \* "id"
SUndefined == <<117, 110, 100, 101, 102, 105, 110, 101, 100>> \* "undefined"
SNull == <<110, 117, 108, 108>>                          \* "null"
STrue == <<116, 114, 117, 101>>                          \* "true"
SFalse == <<102, 97, 108, 115, 101>>                     \* "false"
SObject == <<91, 111, 98, 106, 101, 99, 116, 32, 79, 98, 106, 101, 99, 116, 93>> \* "[object Object]"

\* s < t in the byte order Level keeps its keys in
RECURSIVE StrLess(_, _)
StrLess(s, t) ==
  IF t = <<>> THEN FALSE
  ELSE IF s = <<>> THEN TRUE
  ELSE IF Head(s) # Head(t) THEN Head(s) < Head(t)
  ELSE StrLess(Tail(s), Tail(t))

StrLeq(s, t) == s = t \/ StrLess(s, t)

\* String.prototype.startsWith
StartsWith(s, p) == Len(p) <= Len(s) /\ SubSeq(s, 1, Len(p)) = p

---------------------------------------------------------------------------
(* JavaScript values.                                                      *)

Str(s) == [t |-> "str", s |-> s]
Num(n) == [t |-> "num", n |-> n]
Bool(b) == [t |-> "bool", b |-> b]
Null == [t |-> "null"]
Undef == [t |-> "undef"]
Arr(a) == [t |-> "arr", a |-> a]
Obj(o) == [t |-> "obj", o |-> o]

\* the empty object {}
EmptyObj == [k \in {} |-> Null]

\* isObject: thing instanceof Object && !Array.isArray(thing)
isObject(v) == v.t = "obj"

\* JavaScript truthiness, as in `if (document.id)` and `document.id || uuid()`
Truthy(v) ==
  CASE v.t = "str" -> v.s # <<>>
    [] v.t = "num" -> v.n # 0
    [] v.t = "bool" -> v.b
    [] v.t = "null" -> FALSE
    [] v.t = "undef" -> FALSE
    [] OTHER -> TRUE

\* Number.prototype.toString for a natural number
RECURSIVE NumToStr(_)
NumToStr(n) ==
  IF n < 10 THEN <<48 + n>> ELSE NumToStr(n \div 10) \o <<48 + (n % 10)>>

IsDigits(s) == \A i \in 1..Len(s) : s[i] >= 48 /\ s[i] <= 57

\* Number(string) is NaN unless the string is a numeral; Number("") is 0
IsNaNStr(s) == ~IsDigits(s)

RECURSIVE DigitsVal(_)
DigitsVal(s) ==
  IF s = <<>> THEN 0 ELSE 10 * DigitsVal(SubSeq(s, 1, Len(s) - 1)) + (s[Len(s)] - 48)

\* Number(string), for a string that is not NaN
StrToNum(s) == DigitsVal(s)

\* String(value), the conversion a template literal and `+` apply
RECURSIVE ToStr(_)
RECURSIVE JoinFrom(_, _)
JoinFrom(a, i) ==
  IF i > Len(a) THEN <<>>
  ELSE (IF a[i].t \in {"null", "undef"} THEN <<>> ELSE ToStr(a[i]))
       \o (IF i < Len(a) THEN SComma ELSE <<>>)
       \o JoinFrom(a, i + 1)

ToStr(v) ==
  CASE v.t = "str" -> v.s
    [] v.t = "num" -> NumToStr(v.n)
    [] v.t = "bool" -> (IF v.b THEN STrue ELSE SFalse)
    [] v.t = "null" -> SNull
    [] v.t = "undef" -> SUndefined
    [] v.t = "arr" -> JoinFrom(v.a, 1)
    [] OTHER -> SObject

\* JSON.parse(JSON.stringify(value)): a property whose value is undefined is
\* dropped from an object, an undefined array element becomes null
RECURSIVE JsonValue(_)
JsonObject(o) ==
  LET keep == {k \in DOMAIN o : o[k].t # "undef"}
  IN [k \in keep |-> JsonValue(o[k])]

JsonValue(v) ==
  CASE v.t = "obj" -> Obj(JsonObject(v.o))
    [] v.t = "arr" -> Arr([i \in 1..Len(v.a) |->
                             IF v.a[i].t = "undef" THEN Null ELSE JsonValue(v.a[i])])
    [] OTHER -> v

\* { ...a, ...b }: the properties of b win
Spread(a, b) == [k \in DOMAIN a \cup DOMAIN b |-> IF k \in DOMAIN b THEN b[k] ELSE a[k]]

---------------------------------------------------------------------------
(* The Level store.  A document body is kept as its JSON text, which is    *)
(* modelled by the value tree JSON.parse gives back.                       *)

JsonText(o) == [t |-> "json", doc |-> JsonObject(o)]
Text(s) == [t |-> "text", s |-> s]

Has(st, k) == k \in DOMAIN st
Put(st, k, v) == [x \in DOMAIN st \cup {k} |-> IF x = k THEN v ELSE st[x]]
Del(st, k) == [x \in DOMAIN st \ {k} |-> st[x]]


\* db.get(key) of a document body, through notFoundToUndefined: the JSON text, or
\* undefined when the key is absent
GetDoc(st, id) == IF Has(st, id) THEN st[id] ELSE Undef

\* read(id): JSON.parse of the stored text, undefined when the key is absent
read(st, id) == IF Has(st, id) /\ st[id].t = "json" THEN Obj(st[id].doc) ELSE Undef

---------------------------------------------------------------------------
(* KeyCodec                                                                *)

\* 'indexes' + prefix + '.' + key + '=' + value + '|' + id
indexKey(prefix, key, value, id) ==
  SIndexes \o prefix \o SDot \o key \o SEq \o value \o SBar \o id

\* `counts${prefix}.${key}=${value}`
countKey(prefix, key, value) == SCounts \o prefix \o SDot \o key \o SEq \o value

TotalKey == countKey(<<>>, STotal, SDocuments)

IsIndexKey(k) == StartsWith(k, SIndexes)
IsCountKey(k) == StartsWith(k, SCounts)

---------------------------------------------------------------------------
(* CounterStore                                                            *)

\* the count a read-modify-write starts from: absent or unparsable reads as 0
CountOf(st, ck) ==
  IF Has(st, ck) /\ st[ck].t = "text" /\ ~IsNaNStr(st[ck].s) THEN StrToNum(st[ck].s) ELSE 0

\* getCountForKeyValue
getCountForKeyValue(st, prefix, key, value) == CountOf(st, countKey(prefix, key, value))

getTotalCount(st) == getCountForKeyValue(st, <<>>, STotal, SDocuments)

\* the counter key after a write of n by incrementCount
SetCount(st, ck, n) == Put(st, ck, Text(NumToStr(n)))

\* the counter key after a write by decrementCount: stored when positive, deleted otherwise
SetOrDelCount(st, ck, n) == IF n > 0 THEN Put(st, ck, Text(NumToStr(n))) ELSE Del(st, ck)

\* one incrementCount call with no other writer of the key in flight
incrementCount(st, prefix, key, value) ==
  SetCount(st, countKey(prefix, key, value), CountOf(st, countKey(prefix, key, value)) + 1)

\* one decrementCount call with no other writer of the key in flight
decrementCount(st, prefix, key, value) ==
  SetOrDelCount(st, countKey(prefix, key, value), CountOf(st, countKey(prefix, key, value)) - 1)

---------------------------------------------------------------------------
(* IndexManager                                                            *)

\* The addIndex / removeIndex calls one walk of a document makes: one per scalar
\* field, one per array element, and for a nested object the walk of the object
\* under the extended prefix plus one 'parent.child' alias per non-object child.
\* via and n only keep apart calls that have the same prefix, key and value.
RECURSIVE IndexOps(_, _)
IndexOps(object, prefix) ==
  UNION { LET value == object[key] IN
          IF isObject(value)
          THEN IndexOps(value.o, prefix \o SDot \o key)
               \cup { [p |-> prefix, k |-> key \o SDot \o nk, v |-> ToStr(value.o[nk]),
                       via |-> "alias", n |-> 0]
                      : nk \in {x \in DOMAIN value.o : ~isObject(value.o[x])} }
          ELSE IF value.t = "arr"
          THEN { [p |-> prefix, k |-> key, v |-> ToStr(value.a[i]), via |-> "item", n |-> i]
                 : i \in 1..Len(value.a) }
          ELSE { [p |-> prefix, k |-> key, v |-> ToStr(value), via |-> "field", n |-> 0] }
        : key \in DOMAIN object }

OpIndexKey(op, id) == indexKey(op.p, op.k, op.v, id)
OpCountKey(op) == countKey(op.p, op.k, op.v)

\* how many of the calls of a walk write the counter ck
Mult(ops, ck) == Cardinality({op \in ops : OpCountKey(op) = ck})

\* The sibling counter updates of one walk are started together and awaited with
\* Promise.all, so updates of one counter key race: each reads the key and writes
\* what it read plus (minus) one.  The last write leaves the start value moved by
\* between 1 and Mult steps.  Steps[ck] is that number.
RaceSteps(ops) ==
  LET cks == {OpCountKey(op) : op \in ops}
      top == IF ops = {} THEN 1 ELSE CHOOSE m \in 1..Cardinality(ops) :
                                        \A ck \in cks : Mult(ops, ck) <= m
  IN {f \in [cks -> 1..top] : \A ck \in cks : f[ck] <= Mult(ops, ck)}

\* the stores left once the db.put(indexKey, id) of the calls in puts and the
\* incrementCount of the calls in incs have settled
settled(st, id, puts, incs) ==
  LET iks == {OpIndexKey(op, id) : op \in puts}
      cks == {OpCountKey(op) : op \in incs}
  IN { [x \in DOMAIN st \cup iks \cup cks |->
          IF x \in cks THEN Text(NumToStr(CountOf(st, x) + f[x]))
          ELSE IF x \in iks THEN Text(id)
          ELSE st[x]]
       : f \in RaceSteps(incs) }

\* the stores addToIndexes(id, object) can leave
addToIndexes(st, id, object) ==
  settled(st, id, IndexOps(object, <<>>), IndexOps(object, <<>>))

\* addToIndexes(id, object) when one db.put(indexKey, id) is rejected: Promise.all
\* rejects at once, the sub-writes of the calls in early have settled by then (st),
\* those of the other calls are still in flight and settle later (puts, incs)
addToIndexesRejected(st, id, object) ==
  LET ops == IndexOps(object, <<>>)
  IN UNION { UNION { { [st |-> s, puts |-> ops \ (early \cup {bad}), incs |-> ops \ early]
                       : s \in settled(st, id, early, early) }
                     : early \in SUBSET (ops \ {bad}) }
             : bad \in ops }

\* the stores removeIndexesForDocument(id, document) can leave
removeIndexesForDocument(st, id, document) ==
  LET ops == IndexOps(document, <<>>)
      iks == {OpIndexKey(op, id) : op \in ops}
      cks == {OpCountKey(op) : op \in ops}
  IN { LET gone == iks \cup {ck \in cks : CountOf(st, ck) - f[ck] <= 0}
       IN [x \in (DOMAIN st \cup cks) \ gone |->
             IF x \in cks THEN Text(NumToStr(CountOf(st, x) - f[x])) ELSE st[x]]
       : f \in RaceSteps(ops) }

\* removeIndexesForDocument(id, document) when the db.put of one counter is rejected:
\* the deletions and the other counter updates still settle
removeIndexesRejected(st, id, document) ==
  LET ops == IndexOps(document, <<>>)
      iks == {OpIndexKey(op, id) : op \in ops}
      cks == {OpCountKey(op) : op \in ops}
  IN UNION { { LET gone == iks \cup {ck \in cks \ {bad} : CountOf(st, ck) - f[ck] <= 0}
               IN [x \in (DOMAIN st \cup cks) \ gone |->
                     IF x \in cks \ {bad} THEN Text(NumToStr(CountOf(st, x) - f[x]))
                     ELSE st[x]]
               : bad \in {ck \in cks : CountOf(st, ck) - f[ck] > 0} }
             : f \in RaceSteps(ops) }

---------------------------------------------------------------------------
(* Range iteration of the store: db.keys({gt, gte, lt, lte}) yields the    *)
(* keys within the bounds in ascending order.                               *)

\* a bound that is not given
NoBound == <<-1>>

Bounds(gt, gte, lt, lte) == [gt |-> gt, gte |-> gte, lt |-> lt, lte |-> lte]

InBounds(k, b) ==
  /\ b.gt = NoBound \/ StrLess(b.gt, k)
  /\ b.gte = NoBound \/ StrLeq(b.gte, k)
  /\ b.lt = NoBound \/ StrLess(k, b.lt)
  /\ b.lte = NoBound \/ StrLeq(k, b.lte)

\* a set of keys in ascending order
RECURSIVE Ascending(_)
Ascending(S) ==
  IF S = {} THEN <<>>
  ELSE LET m == CHOOSE x \in S : \A y \in S : StrLeq(x, y)
       IN <<m>> \o Ascending(S \ {m})

dbKeys(st, b) == Ascending({k \in DOMAIN st : InBounds(k, b)})

\* String.prototype.split(sep) for a one-character separator
RECURSIVE Split(_, _)
Split(s, sep) ==
  IF \A i \in 1..Len(s) : <<s[i]>> # sep THEN <<s>>
  ELSE LET i == CHOOSE j \in 1..Len(s) : <<s[j]>> = sep /\ \A h \in 1..(j - 1) : <<s[h]>> # sep
       IN <<SubSeq(s, 1, i - 1)>> \o Split(SubSeq(s, i + 1, Len(s)), sep)

\* const [, lvalueAndKey] = ckey.split('='); lvalueAndKey.split('|')[0]
lvalueOf(ckey) == Split(Split(ckey, SEq)[2], SBar)[1]

\* a JavaScript Set keeps its elements in the order they were first added
SetAdd(ids, id) == IF \E i \in 1..Len(ids) : ids[i] = id THEN ids ELSE Append(ids, id)
Elems(ids) == {ids[i] : i \in 1..Len(ids)}

RECURSIVE SetAddAll(_, _)
SetAddAll(ids, more) ==
  IF more = <<>> THEN ids ELSE SetAddAll(SetAdd(ids, Head(more)), Tail(more))

\* [...a].filter(id => b.has(id)) and [...a].filter(id => !b.has(id))
RECURSIVE Keep(_, _)
Keep(a, S) ==
  IF a = <<>> THEN <<>>
  ELSE (IF Head(a) \in S THEN <<Head(a)>> ELSE <<>>) \o Keep(Tail(a), S)

Intersect(a, b) == Keep(a, Elems(b))
Without(a, b) == Keep(a, Elems(a) \ Elems(b))

\* the ids held by the index entries of a key sequence: db.get(ckey) of each
RECURSIVE IdsOfKeys(_, _)
IdsOfKeys(st, keys) ==
  IF keys = <<>> THEN <<>>
  ELSE SetAddAll(<<st[Head(keys)].s>>, IdsOfKeys(st, Tail(keys)))

---------------------------------------------------------------------------
(* QueryEngine: id-sets                                                    *)

getIdsForKeyValue(st, key, value) ==
  IdsOfKeys(st, dbKeys(st, Bounds(NoBound,
                                  SIndexes \o SDot \o key \o SEq \o ToStr(value) \o SBar,
                                  NoBound,
                                  SIndexes \o SDot \o key \o SEq \o ToStr(value) \o SBar
                                    \o LastUnicodeCharacter)))

getIdsForKeyValueStartsWith(st, key, prefix) ==
  IdsOfKeys(st, dbKeys(st, Bounds(NoBound,
                                  SIndexes \o SDot \o key \o SEq \o prefix,
                                  SIndexes \o SDot \o key \o SEq \o prefix \o LastUnicodeCharacter,
                                  NoBound)))

\* the keys of every index entry of a field
FieldKeys(st, key) ==
  dbKeys(st, Bounds(NoBound, SIndexes \o SDot \o key \o SEq,
                    NoBound, SIndexes \o SDot \o key \o SEq \o LastUnicodeCharacter))

\* numericLvalue <op> value, where a string operand is converted by Number
NumericMatch(op, lvalue, value) ==
  LET isNum == value.t = "num" \/ (value.t = "str" /\ ~IsNaNStr(value.s))
      n == IF value.t = "num" THEN value.n ELSE StrToNum(value.s)
      l == StrToNum(lvalue)
  IN /\ ~IsNaNStr(lvalue)
     /\ isNum
     /\ \/ op = "$gt" /\ l > n
        \/ op = "$gte" /\ l >= n
        \/ op = "$lt" /\ l < n
        \/ op = "$lte" /\ l <= n

RECURSIVE KeepKeys(_, _, _)
KeepKeys(keys, op, value) ==
  IF keys = <<>> THEN <<>>
  ELSE (IF NumericMatch(op, lvalueOf(Head(keys)), value) THEN <<Head(keys)>> ELSE <<>>)
       \o KeepKeys(Tail(keys), op, value)

getIdsForKeyValueRange(st, key, op, value) ==
  IdsOfKeys(st, KeepKeys(FieldKeys(st, key), op, value))

RECURSIVE getIdsForKeyValueIn(_, _, _)
getIdsForKeyValueIn(st, key, values) ==
  IF values = <<>> THEN <<>>
  ELSE SetAddAll(getIdsForKeyValue(st, key, Head(values)),
                 getIdsForKeyValueIn(st, key, Tail(values)))

\* documentValues.includes(value): same type and same value
Includes(a, value) == \E i \in 1..Len(a) : a[i] = value

\* Array.isArray(document?.[key]) && values.every(value => documentValues.includes(value))
HasAll(st, id, key, values) ==
  LET document == read(st, id)
  IN /\ document.t = "obj"
     /\ key \in DOMAIN document.o
     /\ document.o[key].t = "arr"
     /\ \A i \in 1..Len(values) : Includes(document.o[key].a, values[i])

RECURSIVE KeepAll(_, _, _, _)
KeepAll(st, ids, key, values) ==
  IF ids = <<>> THEN <<>>
  ELSE (IF HasAll(st, Head(ids), key, values) THEN <<Head(ids)>> ELSE <<>>)
       \o KeepAll(st, Tail(ids), key, values)

getIdsForKeyValueAll(st, key, values) ==
  KeepAll(st, IdsOfKeys(st, FieldKeys(st, key)), key, values)

\* getAllIds: the keys between '\x00' and 'counts' that start with neither 'indexes'
\* nor 'counts'
RECURSIVE KeepDocumentKeys(_)
KeepDocumentKeys(keys) ==
  IF keys = <<>> THEN <<>>
  ELSE (IF ~IsIndexKey(Head(keys)) /\ ~IsCountKey(Head(keys)) THEN <<Head(keys)>> ELSE <<>>)
       \o KeepDocumentKeys(Tail(keys))

getAllIds(st) == KeepDocumentKeys(dbKeys(st, Bounds(<<0>>, NoBound, SCounts, NoBound)))

getIdsForKeyValueNot(st, key, value) == Without(getAllIds(st), getIdsForKeyValue(st, key, value))

getIdsForKeyValueNotIn(st, key, values) ==
  Without(getAllIds(st), getIdsForKeyValueIn(st, key, values))

getIdsForKeyExists(st, key, shouldExist) ==
  LET ids == IdsOfKeys(st, dbKeys(st, Bounds(NoBound, SIndexes \o SDot \o key \o SEq,
                                             SIndexes \o SDot \o key \o SEq \o LastUnicodeCharacter,
                                             NoBound)))
  IN IF shouldExist THEN ids ELSE Without(getAllIds(st), ids)

\* An id-set, or the error the evaluation threw
Ids(ids) == [err |-> <<>>, ids |-> ids]
Fail(err) == [err |-> err, ids |-> <<>>]

\* an operator object {$op: value, ...} and a query object {key: condition, ...} keep
\* their properties in order
Ops(ops) == [t |-> "ops", ops |-> ops]
Op(op, v) == [op |-> op, v |-> v]
Or(subs) == [t |-> "or", subs |-> subs]
Cond(key, cond) == [key |-> key, cond |-> cond]
SOr == <<36, 111, 114>>                                  \* "$or"

\* isObject(value) && Object.keys(value).some(k => k.startsWith('$'))
IsOperators(cond) == cond.t = "ops"

\* all ids minus the matching ones, or the error the matching threw
complementOf(st, matching) ==
  IF matching.err # <<>> THEN matching ELSE Ids(Without(getAllIds(st), matching.ids))

\* handleOperators: the id-sets of the operators of one field, intersected
RECURSIVE handleOperators(_, _, _)
operatorIds(st, key, op, value) ==
  CASE op = "$eq" -> Ids(getIdsForKeyValue(st, key, value))
    [] op = "$ne" -> Ids(Without(getAllIds(st), getIdsForKeyValue(st, key, value)))
    [] op \in {"$gt", "$gte", "$lt", "$lte"} ->
         IF value.t \in {"null", "undef"} THEN Fail(<<"requires a non-null value">>)
         ELSE Ids(getIdsForKeyValueRange(st, key, op, value))
    [] op = "$in" ->
         IF value.t # "arr" THEN Fail(<<"$in operator requires an array">>)
         ELSE IF value.a = <<>> THEN Ids(<<>>)
         ELSE Ids(getIdsForKeyValueIn(st, key, value.a))
    [] op = "$nin" ->
         IF value.t # "arr" THEN Fail(<<"$nin operator requires an array">>)
         ELSE IF value.a = <<>> THEN Ids(getAllIds(st))
         ELSE Ids(getIdsForKeyValueNotIn(st, key, value.a))
    [] op = "$exists" ->
         IF value.t # "bool" THEN Fail(<<"$exists operator requires a boolean value">>)
         ELSE Ids(getIdsForKeyExists(st, key, value.b))
    [] op = "$all" ->
         IF value.t # "arr" THEN Fail(<<"$all operator requires an array">>)
         ELSE IF value.a = <<>> THEN Ids(getAllIds(st))
         ELSE Ids(getIdsForKeyValueAll(st, key, value.a))
    [] op = "$not" ->
         IF value.t \in {"null", "undef"} THEN Fail(<<"$not operator requires a non-null value">>)
         ELSE IF value.t = "ops"
         THEN complementOf(st, handleOperators(st, key, value.ops))
         ELSE Ids(getIdsForKeyValueNot(st, key, value))
    [] op = "$sw" ->
         IF value.t # "str" THEN Fail(<<"$sw operator requires a string value">>)
         ELSE Ids(getIdsForKeyValueStartsWith(st, key, value.s))
    [] OTHER -> Fail(<<"Unsupported operator">>)

\* the loop of handleOperators from operator i on, resultIds being the set so far
RECURSIVE handleFrom(_, _, _, _, _)
handleStep(st, key, ops, i, resultIds, got) ==
  IF got.err # <<>>
  THEN Fail(<<"Error processing", ops[i].op, "operator for key", key>> \o got.err)
  ELSE handleFrom(st, key, ops, i + 1, IF i = 1 THEN got.ids ELSE Intersect(resultIds, got.ids))

handleFrom(st, key, ops, i, resultIds) ==
  IF i > Len(ops) THEN Ids(resultIds)
  ELSE handleStep(st, key, ops, i, resultIds, operatorIds(st, key, ops[i].op, ops[i].v))

handleOperators(st, key, ops) == handleFrom(st, key, ops, 1, <<>>)

---------------------------------------------------------------------------
(* QueryEngine: query and count                                            *)

\* a query object {key: condition, ...}, and a query object that is missing
Query(conds) == [t |-> "query", conds |-> conds]
NoQuery == Undef

\* doc.id as a store key; a body without a string id gives no usable key
InvalidKey == <<-2>>
bodyId(doc) ==
  IF SId \in DOMAIN doc.o /\ doc.o[SId].t = "str" THEN doc.o[SId].s ELSE InvalidKey

\* results.filter(doc => doc !== undefined)
RECURSIVE Defined(_)
Defined(docs) ==
  IF docs = <<>> THEN <<>>
  ELSE (IF Head(docs).t # "undef" THEN <<Head(docs)>> ELSE <<>>) \o Defined(Tail(docs))

\* Array.prototype.slice(from, to)
Slice(a, from, to) ==
  IF from >= Len(a) \/ to <= from THEN <<>>
  ELSE SubSeq(a, from + 1, IF to < Len(a) THEN to ELSE Len(a))

\* what query resolves with, or the error it rejects with
Docs(docs) == [err |-> <<>>, docs |-> docs]
NoDocs(err) == [err |-> err, docs |-> <<>>]

\* options of query: offset and limit, each possibly not given; sort, the entries
\* [field, direction] of the sort object in order; project, the keys of the project
\* object, or not given
NotGiven == -1
NoSort == <<>>
NoProject == Undef
Fields(fields) == [t |-> "fields", fields |-> fields]
Options(offset, limit, sort, project) ==
  [offset |-> offset, limit |-> limit, sort |-> sort, project |-> project]
NoOptions == Options(NotGiven, NotGiven, NoSort, NoProject)

\* the id-set of one top-level field condition
conditionIds(st, key, cond) ==
  IF IsOperators(cond) THEN handleOperators(st, key, cond.ops)
  ELSE Ids(getIdsForKeyValue(st, key, cond))

RECURSIVE query(_, _, _)
RECURSIVE queryFrom(_, _, _, _)
RECURSIVE orDocIds(_, _, _)

\* the ids of the documents the sub-queries of an $or return, from sub-query i on
orDocIdsStep(got, rest) ==
  IF got.err # <<>> THEN Fail(got.err)
  ELSE IF rest.err # <<>> THEN rest
  ELSE Ids(SetAddAll([j \in 1..Len(got.docs) |-> bodyId(got.docs[j])], rest.ids))

orDocIds(st, subs, i) ==
  IF i > Len(subs) THEN Ids(<<>>)
  ELSE orDocIdsStep(query(st, subs[i], NoOptions), orDocIds(st, subs, i + 1))

\* the id-set of one top-level entry where an unsupported `$` key matches everything
queryEntryIdsIgnoring(st, key, cond) ==
  IF key = SOr THEN orDocIds(st, cond.subs, 1)
  ELSE IF StartsWith(key, <<36>>) THEN Ids(getAllIds(st))
  ELSE conditionIds(st, key, cond)

\* the id-set of one top-level entry of a query object
queryEntryIds(st, key, cond) ==
  IF key = SOr THEN orDocIds(st, cond.subs, 1)
  ELSE IF StartsWith(key, <<36>>) THEN Fail(<<"Unsupported top-level operator", key>>)
  ELSE conditionIds(st, key, cond)

\* the loop of query over the conditions from i on
queryStep(st, q, i, resultIds, got) ==
  IF got.err # <<>> THEN got
  ELSE queryFrom(st, q, i + 1, IF i = 1 THEN got.ids ELSE Intersect(resultIds, got.ids))

queryFrom(st, q, i, resultIds) ==
  IF i > Len(q) THEN Ids(resultIds)
  ELSE queryStep(st, q, i, resultIds, queryEntryIds(st, q[i].key, q[i].cond))

\* a missing or empty query object stands for { id: { $exists: true } }
conditionsOf(queryObject) ==
  IF queryObject = NoQuery \/ queryObject = Query(<<>>)
  THEN <<Cond(SId, Ops(<<Op("$exists", Bool(TRUE))>>))>>
  ELSE queryObject.conds

\* results.filter(defined).slice(offset, offset + limit), limit defaulting to the
\* number of ids read
page(results, options) ==
  LET offset == IF options.offset = NotGiven THEN 0 ELSE options.offset
      limit == IF options.limit = NotGiven THEN Len(results) ELSE options.limit
  IN Slice(Defined(results), offset, offset + limit)

\* x < y of JavaScript: two strings compare by code units, any other pair as numbers,
\* and a comparison with NaN is false. An object or array operand is first turned
\* into its string.
Primitive(v) == IF v.t \in {"obj", "arr"} THEN Str(ToStr(v)) ELSE v
IsNaNValue(v) == v.t = "undef" \/ (v.t = "str" /\ IsNaNStr(v.s))
ToNumber(v) ==
  CASE v.t = "num" -> v.n
    [] v.t = "bool" -> (IF v.b THEN 1 ELSE 0)
    [] v.t = "str" -> StrToNum(v.s)
    [] OTHER -> 0
PrimitiveLess(x, y) ==
  IF x.t = "str" /\ y.t = "str" THEN StrLess(x.s, y.s)
  ELSE ~IsNaNValue(x) /\ ~IsNaNValue(y) /\ ToNumber(x) < ToNumber(y)
JsLess(x, y) == PrimitiveLess(Primitive(x), Primitive(y))

\* a[field]: the property of that name, a dotted name included
Property(doc, field) == IF field \in DOMAIN doc.o THEN doc.o[field] ELSE Undef

\* the comparator query passes to results.sort
RECURSIVE compare(_, _, _)
compare(a, b, sortFields) ==
  IF sortFields = <<>> THEN 0
  ELSE IF JsLess(Property(a, Head(sortFields)[1]), Property(b, Head(sortFields)[1]))
  THEN (IF Head(sortFields)[2] = 1 THEN -1 ELSE 1)
  ELSE IF JsLess(Property(b, Head(sortFields)[1]), Property(a, Head(sortFields)[1]))
  THEN (IF Head(sortFields)[2] = 1 THEN 1 ELSE -1)
  ELSE compare(a, b, Tail(sortFields))

\* Array.prototype.sort is stable: an element goes before the first one the
\* comparator puts after it
RECURSIVE insertSorted(_, _, _)
insertSorted(sorted, x, sortFields) ==
  IF sorted = <<>> THEN <<x>>
  ELSE IF compare(x, Head(sorted), sortFields) < 0 THEN <<x>> \o sorted
  ELSE <<Head(sorted)>> \o insertSorted(Tail(sorted), x, sortFields)

RECURSIVE sortDefined(_, _)
sortDefined(docs, sortFields) ==
  IF docs = <<>> THEN <<>>
  ELSE insertSorted(sortDefined(SubSeq(docs, 1, Len(docs) - 1), sortFields),
                    docs[Len(docs)], sortFields)

\* results.sort(comparator): undefined elements go to the end without being compared
sorted(results, sortFields) ==
  sortDefined(Defined(results), sortFields)
    \o [i \in 1..(Len(results) - Len(Defined(results))) |-> Undef]

\* the projection of a document: the fields of options.project it has
projection(doc, fields) ==
  Obj([f \in {fields[i] : i \in 1..Len(fields)} \cap DOMAIN doc.o |-> doc.o[f]])

\* results.map(doc => projected): `field in doc` throws for an undefined doc
projected(results, options) ==
  IF options.project.t = "undef" THEN Docs(page(results, options))
  ELSE IF options.project.fields # <<>> /\ \E i \in 1..Len(results) : results[i].t = "undef"
  THEN NoDocs(<<"TypeError">>)
  ELSE Docs(page([i \in 1..Len(results) |->
                    IF results[i].t = "undef" THEN Obj(EmptyObj)
                    ELSE projection(results[i], options.project.fields)],
                 options))

\* a query that projects the documents before it sorts them
resultsProjectedFirst(st, got, options) ==
  IF got.err # <<>> THEN NoDocs(got.err)
  ELSE IF options.project.t = "undef"
  THEN Docs(page(sorted([i \in 1..Len(got.ids) |-> read(st, got.ids[i])], options.sort), options))
  ELSE Docs(page(sorted([i \in 1..Len(got.ids) |->
                           projection(read(st, got.ids[i]), options.project.fields)],
                        options.sort),
                 options))

\* the documents read for the ids found, sorted, projected and sliced, or the error
\* of the evaluation
resultsOf(st, got, options) ==
  IF got.err # <<>> THEN NoDocs(got.err)
  ELSE IF InvalidKey \in Elems(got.ids) THEN NoDocs(<<"invalid key">>)
  ELSE projected(sorted([i \in 1..Len(got.ids) |-> read(st, got.ids[i])], options.sort),
                 options)

query(st, queryObject, options) ==
  resultsOf(st, queryFrom(st, conditionsOf(queryObject), 1, <<>>), options)

\* sumCountsForPrefix: the sum of the counters whose key starts with the prefix
RECURSIVE SumCounts(_, _)
SumCounts(st, keys) ==
  IF keys = <<>> THEN 0 ELSE StrToNum(st[Head(keys)].s) + SumCounts(st, Tail(keys))

sumCountsForPrefix(st, prefix) ==
  SumCounts(st, dbKeys(st, Bounds(NoBound, prefix, prefix \o LastUnicodeCharacter, NoBound)))

Min(a, b) == IF a < b THEN a ELSE b

\* a count, or the error the evaluation threw
Count(n) == [err |-> <<>>, n |-> n]
NoCount(err) == [err |-> err, n |-> 0]

RECURSIVE SumOfCounts(_, _, _, _)
SumOfCounts(st, prefix, key, values) ==
  IF values = <<>> THEN 0
  ELSE getCountForKeyValue(st, prefix, key, ToStr(Head(values)))
       + SumOfCounts(st, prefix, key, Tail(values))

\* ids.size of an id-set, or the error its evaluation threw
sizeOf(ids) == IF ids.err # <<>> THEN NoCount(ids.err) ELSE Count(Len(ids.ids))

\* for (const val of value): an array gives its elements, a string its characters,
\* any other value is not iterable
Iterable(value) == value.t \in {"arr", "str"}
Values(value) ==
  IF value.t = "arr" THEN value.a ELSE [i \in 1..Len(value.s) |-> Str(<<value.s[i]>>)]

\* the count getCountForOperators takes for one operator
operatorCount(st, prefix, key, op, value) ==
  CASE op = "$eq" -> Count(getCountForKeyValue(st, prefix, key, ToStr(value)))
    [] op = "$ne" -> Count(getTotalCount(st) - getCountForKeyValue(st, prefix, key, ToStr(value)))
    [] op = "$in" /\ Iterable(value) -> Count(SumOfCounts(st, prefix, key, Values(value)))
    [] op = "$nin" /\ Iterable(value) ->
         Count(getTotalCount(st) - SumOfCounts(st, prefix, key, Values(value)))
    [] op \in {"$in", "$nin"} /\ ~Iterable(value) -> NoCount(<<"value is not iterable">>)
    [] op = "$exists" ->
         IF Truthy(value)
         THEN Count(sumCountsForPrefix(st, SCounts \o prefix \o SDot \o key \o SEq))
         ELSE Count(getTotalCount(st)
                    - sumCountsForPrefix(st, SCounts \o prefix \o SDot \o key \o SEq))
    [] OTHER -> sizeOf(handleOperators(st, key, <<Op(op, value)>>))

RECURSIVE countOperatorsFrom(_, _, _, _, _, _)
countOperatorsStep(st, prefix, key, ops, i, totalCount, got) ==
  IF got.err # <<>> THEN got
  ELSE countOperatorsFrom(st, prefix, key, ops, i + 1,
                          IF i = 1 THEN got.n ELSE Min(totalCount, got.n))

countOperatorsFrom(st, prefix, key, ops, i, totalCount) ==
  IF i > Len(ops) THEN Count(totalCount)
  ELSE countOperatorsStep(st, prefix, key, ops, i, totalCount,
                          operatorCount(st, prefix, key, ops[i].op, ops[i].v))

getCountForOperators(st, prefix, key, ops) == countOperatorsFrom(st, prefix, key, ops, 1, 0)

\* getAllIdsForQuery: the id-set of a query, for count's $or
RECURSIVE getAllIdsForQuery(_, _)
RECURSIVE allIdsFrom(_, _, _, _)
RECURSIVE orIds(_, _, _)
orIdsStep(got, rest) ==
  IF got.err # <<>> THEN got
  ELSE IF rest.err # <<>> THEN rest
  ELSE Ids(SetAddAll(got.ids, rest.ids))

orIds(st, subs, i) ==
  IF i > Len(subs) THEN Ids(<<>>)
  ELSE orIdsStep(getAllIdsForQuery(st, subs[i]), orIds(st, subs, i + 1))

allIdsEntry(st, key, cond) ==
  IF key = SOr THEN orIds(st, cond.subs, 1)
  ELSE IF StartsWith(key, <<36>>) THEN Fail(<<"Unsupported top-level operator", key>>)
  ELSE conditionIds(st, key, cond)

allIdsStep(st, q, i, resultIds, got) ==
  IF got.err # <<>> THEN got
  ELSE allIdsFrom(st, q, i + 1, IF i = 1 THEN got.ids ELSE Intersect(resultIds, got.ids))

allIdsFrom(st, q, i, resultIds) ==
  IF i > Len(q) THEN Ids(resultIds)
  ELSE allIdsStep(st, q, i, resultIds, allIdsEntry(st, q[i].key, q[i].cond))

getAllIdsForQuery(st, queryObject) == allIdsFrom(st, queryObject.conds, 1, <<>>)

\* the count of one top-level condition
conditionCount(st, key, cond) ==
  IF key = SOr THEN sizeOf(orIds(st, cond.subs, 1))
  ELSE IF StartsWith(key, <<36>>) THEN NoCount(<<"Unsupported top-level operator", key>>)
  ELSE IF IsOperators(cond) THEN getCountForOperators(st, <<>>, key, cond.ops)
  ELSE Count(getCountForKeyValue(st, <<>>, key, ToStr(cond)))

\* the loop of count over the conditions from i on
RECURSIVE countFrom(_, _, _, _)
countStep(st, q, i, totalCount, got) ==
  IF got.err # <<>> THEN got
  ELSE countFrom(st, q, i + 1, IF i = 1 THEN got.n ELSE Min(totalCount, got.n))

countFrom(st, q, i, totalCount) ==
  IF i > Len(q) THEN Count(totalCount)
  ELSE countStep(st, q, i, totalCount, conditionCount(st, q[i].key, q[i].cond))

count(st, queryObject) ==
  IF queryObject = NoQuery \/ queryObject = Query(<<>>) THEN Count(getTotalCount(st))
  ELSE countFrom(st, queryObject.conds, 1, 0)

---------------------------------------------------------------------------
(* QueryEngine: find and filter                                            *)

\* the options of find and filter; a bound that is not given is undefined
FindOptions(skip, limit, gt, gte, lt, lte) ==
  [skip |-> skip, limit |-> limit, gt |-> gt, gte |-> gte, lt |-> lt, lte |-> lte]
NoFindOptions == FindOptions(NotGiven, NotGiven, Undef, Undef, Undef, Undef)

\* the matcher functions a caller passes: value => true, value => value.startsWith(p)
Always == [kind |-> "always", p |-> <<>>]
StartsWithFn(p) == [kind |-> "startsWith", p |-> p]
apply(fn, lvalue) == fn.kind = "always" \/ StartsWith(lvalue, fn.p)

\* lvalue == value, for the string lvalue of an index key
LooseEq(lvalue, value) ==
  CASE value.t = "str" -> lvalue = value.s
    [] value.t = "num" -> ~IsNaNStr(lvalue) /\ StrToNum(lvalue) = value.n
    [] value.t = "bool" -> ~IsNaNStr(lvalue) /\ StrToNum(lvalue) = (IF value.b THEN 1 ELSE 0)
    [] OTHER -> FALSE

\* the range findOrFilterByFunction iterates for the bounds given
functionRange(key, options) ==
  LET field == SIndexes \o SDot \o key \o SEq IN
  Bounds(IF Truthy(options.gt) THEN field \o ToStr(options.gt) \o SBar \o LastUnicodeCharacter
                               ELSE NoBound,
         IF Truthy(options.gte) THEN field \o ToStr(options.gte)
         ELSE IF ~Truthy(options.gt) THEN field ELSE NoBound,
         IF Truthy(options.lt) THEN field \o ToStr(options.lt) \o SBar \o FirstUnicodeCharacter
                               ELSE NoBound,
         IF Truthy(options.lte) THEN field \o ToStr(options.lte) \o SBar \o LastUnicodeCharacter
         ELSE IF ~Truthy(options.lt) THEN field \o LastUnicodeCharacter ELSE NoBound)

\* the keys of a scan that pass the test of the loop
RECURSIVE matchingByFunction(_, _)
matchingByFunction(keys, fn) ==
  IF keys = <<>> THEN <<>>
  ELSE (IF apply(fn, lvalueOf(Head(keys))) THEN <<Head(keys)>> ELSE <<>>)
       \o matchingByFunction(Tail(keys), fn)

RECURSIVE matchingByValue(_, _)
matchingByValue(keys, value) ==
  IF keys = <<>> THEN <<>>
  ELSE (IF LooseEq(lvalueOf(Head(keys)), value) THEN <<Head(keys)>> ELSE <<>>)
       \o matchingByValue(Tail(keys), value)

\* the loop skips the first options.skip matching keys and stops once a document was
\* pushed and the limit is reached (at once for find)
taken(matching, type, options) ==
  LET skip == IF options.skip = NotGiven THEN 0 ELSE options.skip
      limit == IF type = "find" \/ options.limit \in {0, 1} THEN 1 ELSE options.limit
      rest == Slice(matching, skip, Len(matching))
  IN IF limit = NotGiven THEN rest ELSE Slice(rest, 0, limit)

\* Promise.all of read(db.get(ckey)) for the keys taken; filter returns the documents
\* found, find the first result
resultOf(st, keys, type) ==
  LET results == [i \in 1..Len(keys) |-> read(st, st[keys[i]].s)]
  IN IF type = "filter" THEN Arr(Defined(results))
     ELSE IF results = <<>> THEN Undef ELSE results[1]

findOrFilter(st, type, key, value, options) ==
  resultOf(st,
           taken(matchingByValue(dbKeys(st, Bounds(SIndexes \o SDot \o key \o SEq \o ToStr(value) \o SBar,
                                                   NoBound, NoBound,
                                                   SIndexes \o SDot \o key \o SEq \o ToStr(value)
                                                     \o SBar \o LastUnicodeCharacter)),
                                 value),
                 type, options),
           type)

findOrFilterByFunction(st, type, key, fn, options) ==
  resultOf(st, taken(matchingByFunction(dbKeys(st, functionRange(key, options)), fn),
                     type, options),
           type)

\* valueOrFunction instanceof Function
IsFunction(valueOrFunction) == "kind" \in DOMAIN valueOrFunction

\* a find that starts at the first match whatever options.skip says
findFromFirst(st, key, valueOrFunction, options) ==
  IF IsFunction(valueOrFunction)
  THEN findOrFilterByFunction(st, "find", key, valueOrFunction, [options EXCEPT !.skip = NotGiven])
  ELSE findOrFilter(st, "find", key, valueOrFunction, [options EXCEPT !.skip = NotGiven])

find(st, key, valueOrFunction, options) ==
  IF IsFunction(valueOrFunction) THEN findOrFilterByFunction(st, "find", key, valueOrFunction, options)
  ELSE findOrFilter(st, "find", key, valueOrFunction, options)

filter(st, key, valueOrFunction, options) ==
  IF IsFunction(valueOrFunction)
  THEN findOrFilterByFunction(st, "filter", key, valueOrFunction, options)
  ELSE findOrFilter(st, "filter", key, valueOrFunction, options)

---------------------------------------------------------------------------
(* Bounds and inputs                                                       *)

\* the largest value a counter may reach (racing updates can make counters drift)
MaxCount == 2

\* how many calls may meet a write that the store rejects
MaxFaults == 1

\* ids uuid() can produce: opaque, never repeated, never equal to a caller's id
GenIds == { <<101, 50>> }                             \* "e2"

\* ids a caller supplies
ExplicitIds == { <<98>> }                             \* "b"

FA == <<97>>       \* field "a"
FT == <<116>>      \* field "t"
FG == <<103>>      \* field "g"
FAG == <<97, 46, 103>>   \* path "a.g"
FN == <<110>>      \* field "n"

DocA5 == (FA :> Num(5))                               \* {a: 5}
DocAs5 == (FA :> Str(<<53>>))                         \* {a: '5'}
DocNested == (FA :> Obj((FG :> Num(25))))             \* {a: {g: 25}}
DocTag == (FT :> Str(<<112>>))                         \* {t: 'p'}
DocNestedTag == (FA :> Obj((FT :> Str(<<112>>))))      \* {a: {t: 'p'}}
DocTags == (FT :> Arr(<<Str(<<112>>), Str(<<112>>)>>)) \* {t: ['p', 'p']}

DocTotal == (STotal :> Str(SDocuments))               \* {__total__: 'documents'}

\* documents a caller passes, without an id property
BaseDocs == {DocA5, DocAs5, DocNested, DocTags, DocTotal}

\* the same documents with an id property: a string, the empty string, or present
\* but undefined
WithId(d, idv) == Spread(d, (SId :> idv))
InsertDocs ==
  BaseDocs \cup {WithId(d, Str(i)) : d \in BaseDocs, i \in ExplicitIds}
           \cup {WithId(DocA5, Undef), WithId(DocA5, Str(<<>>))}

\* documents to replace and patch, and the document arguments of these calls: a field
\* overwritten, a field added, a nested object for a nested object, and the field
\* and value of the total counter
StoredForUpdate == {DocAs5, DocNested, WithId(DocTag, Str(<<98>>))}
ReplaceWith == {Obj(DocAs5), Obj(DocTotal)}
PatchWith == {Obj(DocTag), Obj(WithId(DocA5, Str(<<98>>))), Obj(DocNestedTag)}

\* the document arguments of replace, patch and upsert
ReplaceDocs == {Obj(DocAs5), Obj(DocNested)}
PatchDocs == {Obj(DocTags), Obj(WithId(DocA5, Str(<<98>>)))}
UpsertDocs == {Obj(DocA5), Obj(DocTags)}

\* the query objects a caller passes to query and count
SP == <<112>>                                          \* "p"
QA5 == Query(<<Cond(FA, Num(5))>>)
QA5Tp == Query(<<Cond(FA, Num(5)), Cond(FT, Str(SP))>>)
QEq == Query(<<Cond(FA, Ops(<<Op("$eq", Num(5))>>))>>)
QNe == Query(<<Cond(FA, Ops(<<Op("$ne", Num(5))>>))>>)
QIn == Query(<<Cond(FT, Ops(<<Op("$in", Arr(<<Str(SP)>>))>>))>>)
QNin == Query(<<Cond(FT, Ops(<<Op("$nin", Arr(<<Str(SP)>>))>>))>>)
QNinNone == Query(<<Cond(FT, Ops(<<Op("$nin", Arr(<<>>))>>))>>)
QInNone == Query(<<Cond(FT, Ops(<<Op("$in", Arr(<<>>))>>))>>)
QGt == Query(<<Cond(FA, Ops(<<Op("$gt", Num(4))>>))>>)
QNotGt == Query(<<Cond(FA, Ops(<<Op("$not", Ops(<<Op("$gt", Num(4))>>))>>))>>)
QExists == Query(<<Cond(FT, Ops(<<Op("$exists", Bool(TRUE))>>))>>)
QAll == Query(<<Cond(FT, Ops(<<Op("$all", Arr(<<Str(SP)>>))>>))>>)
QSw == Query(<<Cond(FT, Ops(<<Op("$sw", Str(SP))>>))>>)
Queries ==
  {NoQuery, Query(<<>>), QA5, QA5Tp, QEq, QNe, QIn, QNin, QNinNone, QInNone, QGt, QNotGt,
   QExists, QAll, QSw}

\* query objects with several conditions, in both orders of their keys, with $or and
\* with several operators under one field
QTp == Query(<<Cond(FT, Str(SP))>>)
QTpA5 == Query(<<Cond(FT, Str(SP)), Cond(FA, Num(5))>>)
QOr == Query(<<Cond(SOr, Or(<<QA5, QTp>>))>>)
QOrExists == Query(<<Cond(SOr, Or(<<QA5, QTp>>)), Cond(FT, Ops(<<Op("$exists", Bool(TRUE))>>))>>)
QExistsOr == Query(<<Cond(FT, Ops(<<Op("$exists", Bool(TRUE))>>)), Cond(SOr, Or(<<QA5, QTp>>))>>)
QGtLt == Query(<<Cond(FA, Ops(<<Op("$gt", Num(4)), Op("$lt", Num(6))>>))>>)
QLtGt == Query(<<Cond(FA, Ops(<<Op("$lt", Num(6)), Op("$gt", Num(4))>>))>>)
CompoundQueries == {QA5Tp, QTpA5, QOr, QOrExists, QExistsOr, QGtLt, QLtGt}

\* a field and a literal to look for, as {f: v} and as {f: {$eq: v}}
EqCases == {<<FA, Num(5)>>, <<FA, Str(<<53>>)>>, <<FT, Str(SP)>>, <<FAG, Num(25)>>}
QLiteral(c) == Query(<<Cond(c[1], c[2])>>)
QEqual(c) == Query(<<Cond(c[1], Ops(<<Op("$eq", c[2])>>))>>)
EqQueries == {QLiteral(c) : c \in EqCases} \cup {QEqual(c) : c \in EqCases}

\* documents whose field a holds a number, numbers in an array, the empty string, a
\* word, a boolean or null, and the range queries over a
SX == <<120>>                                          \* "x"
RangeValues ==
  {Num(5), Str(<<>>), Str(SX), Bool(TRUE), Null, Arr(<<Num(3), Num(7)>>)}
RangeDocs ==
  {(FA :> v) : v \in RangeValues} \cup {WithId((FA :> v), Str(<<98>>)) : v \in RangeValues}
RangeCases == {<<"$gt", 4>>, <<"$gte", 5>>, <<"$lt", 6>>, <<"$lte", 5>>}
QRange(c) == Query(<<Cond(FA, Ops(<<Op(c[1], Num(c[2]))>>))>>)

\* {f: {$exists: b}} for the fields of the documents
QHas(f, b) == Query(<<Cond(f, Ops(<<Op("$exists", Bool(b))>>))>>)
ExistsFields == {FA, FT}
ExistsQueries == {QHas(f, b) : f \in ExistsFields, b \in BOOLEAN}

\* documents to sort: v has a tie, n breaks it, w.c is nested and orders the
\* documents differently from their ids; and the options of query
FV == <<118>>                                          \* field "v"
FW == <<119>>                                          \* field "w"
FC == <<99>>                                           \* field "c"
FWC == <<119, 46, 99>>                                 \* path "w.c"
SortDoc(id, v, n, c) ==
  (SId :> Str(id)) @@ (FV :> Num(v)) @@ (FN :> Str(n)) @@ (FW :> Obj((FC :> Num(c))))
SortDocs ==
  {SortDoc(<<98>>, 2, <<66>>, 3), SortDoc(<<99>>, 1, <<67>>, 1), SortDoc(<<100>>, 1, <<65>>, 2)}
Sorts ==
  {NoSort, <<<<FV, 1>>>>, <<<<FV, -1>>>>, <<<<FN, -1>>>>, <<<<FV, 1>>, <<FN, 1>>>>,
   <<<<FV, -1>>, <<FN, 1>>>>, <<<<FWC, 1>>>>}
Projects == {NoProject, Fields(<<FN, FT>>), Fields(<<>>)}
QueryOptionSets ==
  {Options(NotGiven, NotGiven, s, NoProject) : s \in Sorts}
    \cup {Options(o, l, s, p) : o \in {NotGiven, 1, 3}, l \in {NotGiven, 0, 2},
                               s \in {NoSort, <<<<FV, 1>>>>}, p \in Projects}
SortQueries == {NoQuery, Query(<<Cond(FV, Num(1))>>)}

\* documents with a name, and the arguments of find and filter
SJo == <<74, 111>>                                     \* "Jo"
SJoe == <<74, 111, 101>>                               \* "Joe"
SPete == <<80, 101, 116, 101>>                         \* "Pete"
SPeter == <<80, 101, 116, 101, 114>>                   \* "Peter"
Names == {SJo, SJoe, SPete}
NameDocs ==
  {(FN :> Str(v)) : v \in Names} \cup {WithId((FN :> Str(v)), Str(<<98>>)) : v \in Names}
Matchers == {Always, StartsWithFn(SJo), Str(SJoe)}
WithBounds(gt, gte, lt, lte) == FindOptions(NotGiven, NotGiven, gt, gte, lt, lte)
FindOptionSets ==
  {NoFindOptions,
   WithBounds(Str(SJo), Undef, Undef, Undef),
   WithBounds(Undef, Str(SJoe), Undef, Undef),
   WithBounds(Undef, Undef, Str(SPete), Undef),
   WithBounds(Undef, Undef, Undef, Str(SPeter)),
   WithBounds(Str(SJo), Undef, Undef, Str(SPeter))}

\* skip and limit, alone and together
PageOptions ==
  {FindOptions(s, l, Undef, Undef, Undef, Undef) : s \in {NotGiven, 0, 1}, l \in {NotGiven, 0, 1, 2}}

\* the field and matcher of a call of find or filter: a top-level field, a dot-joined
\* nested path, an array field
FindArgs ==
  {<<FN, m>> : m \in Matchers}
    \cup {<<FAG, Num(25)>>, <<FAG, Always>>, <<FT, Str(SP)>>, <<FT, StartsWithFn(SP)>>}
FilterDocs == NameDocs \cup {DocNested, WithId(DocTags, Str(<<98>>))}

\* the batches a caller passes to batchInsert
BatchDocs == {DocA5, WithId(DocAs5, Str(<<98>>)), WithId(DocTags, Str(<<98>>))}
Batches == {<<>>} \cup {<<d>> : d \in BatchDocs} \cup {<<d, e>> : d, e \in BatchDocs}

\* the id arguments of replace, patch, upsert and remove: an id of the caller's own,
\* or one that uuid() has handed out
IdArgs == ExplicitIds \cup genUsed

\* the keys that hold document bodies
DocIds(st) == {k \in DOMAIN st : st[k].t = "json"}

\* the bounds of a run: counters stay small, few documents are stored at once
CountersBounded(st) ==
  \A k \in DOMAIN st : IsCountKey(k) => CountOf(st, k) <= MaxCount

\* the record of a completed call: what was called, whether it resolved or rejected
\* (err is the reason of the rejection), and the value it resolved with
Returned(op, ret) == [op |-> op, ok |-> TRUE, err |-> <<>>, ret |-> ret]
Threw(op, err) == [op |-> op, ok |-> FALSE, err |-> err, ret |-> Undef]

---------------------------------------------------------------------------
(* DocumentStore                                                           *)

\* document.id, undefined when the property is missing
IdOf(document) == IF SId \in DOMAIN document THEN document[SId] ELSE Undef

\* insert: { id, ...document }
insertRecord(id, document) == Spread((SId :> Str(id)), document)

\* replace: { ...newDocument, id }
replaceRecord(id, newDocument) == Spread(newDocument, (SId :> Str(id)))

\* a patch that keeps nothing of the existing document
patchDroppingExisting(id, existing, newDocument) == Spread(newDocument, (SId :> Str(id)))

\* patch and upsert: { ...JSON.parse(existingDocument), ...newDocument, id }
patchRecord(id, existing, newDocument) ==
  Spread(Spread(existing, newDocument), (SId :> Str(id)))

\* the stores insert can leave once the id is decided
insertStores(st, id, document) ==
  LET puttableRecord == insertRecord(id, document)
  IN { incrementCount(st2, <<>>, STotal, SDocuments)
       : st2 \in addToIndexes(Put(st, id, JsonText(puttableRecord)), id, puttableRecord) }

\* the stores replace, patch and upsert-on-present can leave
rewriteStores(st, id, puttableRecord) ==
  UNION { addToIndexes(Put(st1, id, JsonText(puttableRecord)), id, puttableRecord)
          : st1 \in removeIndexesForDocument(st, id, st[id].doc) }

\* the stores upsert-on-absent can leave
upsertNewStores(st, id, puttableRecord) ==
  addToIndexes(Put(incrementCount(st, <<>>, STotal, SDocuments), id, JsonText(puttableRecord)),
               id, puttableRecord)

\* the stores remove can leave
removeStores(st, id) ==
  { Del(decrementCount(st1, <<>>, STotal, SDocuments), id)
    : st1 \in removeIndexesForDocument(st, id, st[id].doc) }

\* an insert without the lookup of document.id
InsertOverwriting(document) ==
  LET idv == IdOf(document) IN
  \E id \in (IF Truthy(idv) THEN {ToStr(idv)} ELSE GenIds \ genUsed) :
    \E st \in insertStores(store, id, document) :
      /\ CountersBounded(st)
      /\ store' = st
      /\ genUsed' = (IF Truthy(idv) THEN genUsed ELSE genUsed \cup {id})
      /\ last' = Returned("insert", Obj(insertRecord(id, document)))

Insert(document) ==
  LET idv == IdOf(document) IN
  IF Truthy(idv) /\ Has(store, ToStr(idv))
  THEN /\ last' = Threw("insert", <<"already exists">>)
       /\ UNCHANGED <<store, genUsed>>
  ELSE \E id \in (IF Truthy(idv) THEN {ToStr(idv)} ELSE GenIds \ genUsed) :
         \E st \in insertStores(store, id, document) :
           /\ CountersBounded(st)
           /\ store' = st
           /\ genUsed' = (IF Truthy(idv) THEN genUsed ELSE genUsed \cup {id})
           /\ last' = Returned("insert", Obj(insertRecord(id, document)))

\* the checks of replace and patch without the comparison of the two ids
UpdateErrorIgnoringId(st, id, newDocument) ==
  IF id = <<>> THEN <<"no id">>
  ELSE IF newDocument.t = "undef" THEN <<"no newDocument">>
  ELSE IF ~Has(st, id) THEN <<"does not exist">>
  ELSE <<>>

\* the argument checks replace and patch make, in order, then the lookup of the
\* stored document: the reason the call throws, <<>> when it goes ahead
UpdateError(st, id, newDocument) ==
  IF id = <<>> THEN <<"no id">>
  ELSE IF newDocument.t = "undef" THEN <<"no newDocument">>
  ELSE IF Truthy(IdOf(newDocument.o)) /\ Str(id) # IdOf(newDocument.o) THEN <<"id mismatch">>
  ELSE IF ~Has(st, id) THEN <<"does not exist">>
  ELSE <<>>

\* batchInsert: doc.id || uuid() for each document of the batch, in order
RECURSIVE assignIds(_, _)
assignIds(documents, unused) ==
  IF documents = <<>> THEN {<<>>}
  ELSE IF Truthy(IdOf(Head(documents)))
  THEN {<<ToStr(IdOf(Head(documents)))>> \o rest : rest \in assignIds(Tail(documents), unused)}
  ELSE UNION { {<<id>> \o rest : rest \in assignIds(Tail(documents), unused \ {id})}
               : id \in unused }

\* db.batch(ops): the puts of the bodies, in order, as one write
RECURSIVE batchPut(_, _, _, _)
batchPut(st, ids, records, i) ==
  IF i > Len(ids) THEN st
  ELSE batchPut(Put(st, ids[i], JsonText(records[i])), ids, records, i + 1)

\* for (const doc of processedDocs) await addToIndexes(doc.id, doc), up to document n
RECURSIVE indexFrom(_, _, _, _, _)
indexFrom(st, ids, records, i, n) ==
  IF i > n THEN {st}
  ELSE UNION { indexFrom(st2, ids, records, i + 1, n)
               : st2 \in addToIndexes(st, ids[i], records[i]) }

\* the rollback loop over idsToRollback from position i on; it ends early when
\* removeIndexesForDocument throws
RECURSIVE rollbackFrom(_, _, _)
rollbackFrom(st, ids, i) ==
  IF i > Len(ids) THEN {st}
  ELSE IF read(st, ids[i]).t # "obj" THEN rollbackFrom(st, ids, i + 1)
  ELSE UNION { rollbackFrom(Del(st2, ids[i]), ids, i + 1)
               : st2 \in removeIndexesForDocument(st, ids[i], st[ids[i]].doc) }
       \cup removeIndexesRejected(st, ids[i], st[ids[i]].doc)

\* the stores a batchInsert can leave that fails while indexing document j, once the
\* rollback has run and the sub-writes still in flight have settled
failedIndexing(st, ids, records, j) ==
  UNION { UNION { UNION { settled(rolled, ids[j], w.puts, w.incs)
                          : rolled \in rollbackFrom(w.st, SetAddAll(<<>>, ids), 1) }
                  : w \in addToIndexesRejected(indexed, ids[j], records[j]) }
          : indexed \in indexFrom(st, ids, records, 1, j - 1) }

\* the reasons batchInsert rejects with when a write to the store fails
BatchFailed == <<"db.batch failed">>
WriteFailed == <<"db.put failed">>

BatchInsert(documents) ==
  IF documents = <<>>
  THEN /\ last' = Threw("batchInsert", <<"documents must be a non-empty array">>)
       /\ UNCHANGED <<store, genUsed, faults>>
  ELSE \E ids \in assignIds(documents, GenIds \ genUsed) :
         LET n == Len(documents)
             records == [i \in 1..n |-> insertRecord(ids[i], documents[i])]
             written == batchPut(store, ids, records, 1)
             idsToRollback == SetAddAll(<<>>, ids)
         IN /\ genUsed' = genUsed \cup {ids[i] : i \in {h \in 1..n : ~Truthy(IdOf(documents[h]))}}
            /\ \/ \E st \in indexFrom(written, ids, records, 1, n) :
                    /\ store' = SetCount(st, TotalKey, getTotalCount(st) + n)
                    /\ last' = Returned("batchInsert", Arr([i \in 1..n |-> Obj(records[i])]))
                    /\ UNCHANGED faults
               \/ /\ faults < MaxFaults
                  /\ faults' = faults + 1
                  /\ \/ \E st \in rollbackFrom(store, idsToRollback, 1) :
                          /\ store' = st
                          /\ last' = Threw("batchInsert", BatchFailed)
                     \/ \E j \in 1..n : \E st \in failedIndexing(written, ids, records, j) :
                          /\ store' = st
                          /\ last' = Threw("batchInsert", WriteFailed)
                     \/ \E st \in indexFrom(written, ids, records, 1, n) :
                          \E rolled \in rollbackFrom(st, idsToRollback, 1) :
                            /\ store' = rolled
                            /\ last' = Threw("batchInsert", WriteFailed)
            /\ CountersBounded(store')

\* the checks of upsert
UpsertError(id, document) ==
  IF id = <<>> THEN <<"no id">> ELSE IF document.t = "undef" THEN <<"no document">> ELSE <<>>

\* the checks of remove, then the lookup of the stored document
RemoveError(st, id) ==
  IF id = <<>> THEN <<"no id">> ELSE IF ~Has(st, id) THEN <<"does not exist">> ELSE <<>>

Replace(id, newDocument) ==
  IF UpdateError(store, id, newDocument) # <<>>
  THEN /\ last' = Threw("replace", UpdateError(store, id, newDocument))
       /\ UNCHANGED <<store, genUsed>>
  ELSE \E st \in rewriteStores(store, id, replaceRecord(id, newDocument.o)) :
         /\ CountersBounded(st)
         /\ store' = st
         /\ last' = Returned("replace", Obj(replaceRecord(id, newDocument.o)))
         /\ UNCHANGED genUsed

Patch(id, newDocument) ==
  IF UpdateError(store, id, newDocument) # <<>>
  THEN /\ last' = Threw("patch", UpdateError(store, id, newDocument))
       /\ UNCHANGED <<store, genUsed>>
  ELSE LET puttableRecord == patchRecord(id, store[id].doc, newDocument.o) IN
       \E st \in rewriteStores(store, id, puttableRecord) :
         /\ CountersBounded(st)
         /\ store' = st
         /\ last' = Returned("patch", Obj(puttableRecord))
         /\ UNCHANGED genUsed

Upsert(id, document) ==
  IF UpsertError(id, document) # <<>>
  THEN /\ last' = Threw("upsert", UpsertError(id, document))
       /\ UNCHANGED <<store, genUsed>>
  ELSE LET existing == IF Has(store, id) THEN store[id].doc ELSE EmptyObj
           puttableRecord == patchRecord(id, existing, document.o)
       IN \E st \in (IF Has(store, id) THEN rewriteStores(store, id, puttableRecord)
                                       ELSE upsertNewStores(store, id, puttableRecord)) :
            /\ CountersBounded(st)
            /\ store' = st
            /\ last' = Returned("upsert", Obj(puttableRecord))
            /\ UNCHANGED genUsed

Remove(id) ==
  IF RemoveError(store, id) # <<>>
  THEN /\ last' = Threw("remove", RemoveError(store, id))
       /\ UNCHANGED <<store, genUsed>>
  ELSE \E st \in removeStores(store, id) :
         /\ CountersBounded(st)
         /\ store' = st
         /\ last' = Returned("remove", Undef)
         /\ UNCHANGED genUsed

\* a call of query without options, and a call of count
QueryCall(queryObject) ==
  LET got == query(store, queryObject, NoOptions) IN
  /\ last' = (IF got.err = <<>> THEN Returned("query", Arr(got.docs))
                                ELSE Threw("query", got.err))
  /\ UNCHANGED <<store, genUsed>>

CountCall(queryObject) ==
  LET got == count(store, queryObject) IN
  /\ last' = (IF got.err = <<>> THEN Returned("count", Num(got.n))
                                ELSE Threw("count", got.err))
  /\ UNCHANGED <<store, genUsed>>

\* a call of query with options
QueryWith(queryObject, options) ==
  /\ last' = (IF query(store, queryObject, options).err = <<>>
              THEN Returned("query", Arr(query(store, queryObject, options).docs))
              ELSE Threw("query", query(store, queryObject, options).err))
  /\ UNCHANGED <<store, genUsed>>

\* a call of find and a call of filter
FindCall(key, valueOrFunction, options) ==
  /\ last' = Returned("find", find(store, key, valueOrFunction, options))
  /\ UNCHANGED <<store, genUsed>>

FilterCall(key, valueOrFunction, options) ==
  /\ last' = Returned("filter", filter(store, key, valueOrFunction, options))
  /\ UNCHANGED <<store, genUsed>>

---------------------------------------------------------------------------
(* Completed, non-overlapping calls of insert, replace, patch, upsert and  *)
(* remove on an empty database.                                            *)

EmptyStore == [k \in {} |-> Text(<<>>)]

\* no call is in flight
Idle == [op |-> "idle"]

Init ==
  /\ store = EmptyStore
  /\ genUsed = {}
  /\ last = Returned("open", Undef)
  /\ faults = 0
  /\ flight = Idle

DoInsert == UNCHANGED <<faults, flight>> /\ \E d \in InsertDocs : Insert(d)
DoReplace == UNCHANGED <<faults, flight>> /\ \E id \in IdArgs, d \in ReplaceDocs : Replace(id, d)
DoPatch == UNCHANGED <<faults, flight>> /\ \E id \in IdArgs, d \in PatchDocs : Patch(id, d)
DoUpsert == UNCHANGED <<faults, flight>> /\ \E id \in IdArgs, d \in UpsertDocs : Upsert(id, d)
DoRemove == UNCHANGED <<faults, flight>> /\ \E id \in IdArgs : Remove(id)

Next == DoInsert \/ DoReplace \/ DoPatch \/ DoUpsert \/ DoRemove

Spec == Init /\ [][Next]_vars

---------------------------------------------------------------------------
(* Queries and counts between completed inserts and removes.               *)

DoQuery == UNCHANGED <<faults, flight>> /\ \E q \in Queries \cup CompoundQueries \cup EqQueries \cup ExistsQueries :
                        QueryCall(q)
DoCount == UNCHANGED <<faults, flight>> /\ \E q \in Queries \cup CompoundQueries : CountCall(q)

QueryNext == DoInsert \/ DoRemove \/ DoQuery \/ DoCount

QuerySpec == Init /\ [][QueryNext]_vars

---------------------------------------------------------------------------
(* batchInsert between completed inserts and removes; a write to the store *)
(* can fail during a batchInsert.                                          *)

DoBatchInsert == UNCHANGED flight /\ \E documents \in Batches : BatchInsert(documents)
DoInsertOne == UNCHANGED <<faults, flight>> /\ \E d \in BatchDocs : Insert(d)

BatchNext == DoInsertOne \/ DoBatchInsert \/ DoRemove

BatchSpec == Init /\ [][BatchNext]_vars

---------------------------------------------------------------------------
(* find and filter between completed inserts and removes of named          *)
(* documents.                                                              *)

DoInsertName == UNCHANGED <<faults, flight>> /\ \E d \in FilterDocs : Insert(d)
DoFind ==
  UNCHANGED <<faults, flight>> /\ \E a \in FindArgs, o \in FindOptionSets \cup PageOptions :
                        FindCall(a[1], a[2], o)
DoFilter ==
  UNCHANGED <<faults, flight>> /\ \E a \in FindArgs, o \in FindOptionSets \cup PageOptions :
                        FilterCall(a[1], a[2], o)

FilterNext == DoInsertName \/ DoRemove \/ DoFind \/ DoFilter

FilterSpec == Init /\ [][FilterNext]_vars

---------------------------------------------------------------------------
(* Range queries between completed inserts and removes of documents whose  *)
(* field holds numbers and other values.                                   *)

DoInsertRange == UNCHANGED <<faults, flight>> /\ \E d \in RangeDocs : Insert(d)
DoRangeQuery == UNCHANGED <<faults, flight>> /\ \E c \in RangeCases : QueryCall(QRange(c))

RangeNext == DoInsertRange \/ DoRemove \/ DoRangeQuery

RangeSpec == Init /\ [][RangeNext]_vars

---------------------------------------------------------------------------
(* Queries with sort, project, offset and limit between completed inserts  *)
(* and removes.                                                            *)

DoInsertSort == UNCHANGED <<faults, flight>> /\ \E d \in SortDocs : Insert(d)
DoSortQuery ==
  UNCHANGED <<faults, flight>> /\ \E q \in SortQueries, o \in QueryOptionSets : QueryWith(q, o)

SortNext == DoInsertSort \/ DoRemove \/ DoSortQuery

SortSpec == Init /\ [][SortNext]_vars

---------------------------------------------------------------------------
(* replace and patch between completed inserts and removes.                *)

DoInsertStored == UNCHANGED <<faults, flight>> /\ \E d \in StoredForUpdate : Insert(d)
DoReplaceWith == UNCHANGED <<faults, flight>> /\ \E id \in IdArgs, d \in ReplaceWith : Replace(id, d)
DoPatchWith == UNCHANGED <<faults, flight>> /\ \E id \in IdArgs, d \in PatchWith : Patch(id, d)

UpdateNext == DoInsertStored \/ DoReplaceWith \/ DoPatchWith \/ DoRemove

UpdateSpec == Init /\ [][UpdateNext]_vars

---------------------------------------------------------------------------
(* upsert between completed inserts and removes.                           *)

\* the document arguments of upsert: a field added, a field overwritten, and the
\* field and value of the total counter
UpsertWith == {Obj(DocTag), Obj(DocA5), Obj(DocTotal)}

DoUpsertWith == UNCHANGED <<faults, flight>> /\ \E id \in IdArgs, d \in UpsertWith : Upsert(id, d)

UpsertNext == DoInsertStored \/ DoUpsertWith \/ DoRemove

UpsertSpec == Init /\ [][UpsertNext]_vars

---------------------------------------------------------------------------
(* replace, patch and remove with arguments the checks reject.             *)

\* the id arguments: those of IdArgs and a missing id
IdOrNone == IdArgs \cup {<<>>}

\* the document arguments: a missing document, one without an id, one with the id
\* 'b', and one whose id is the empty string
DocOrNone == {Undef, Obj(DocAs5), Obj(WithId(DocA5, Str(<<98>>))), Obj(WithId(DocA5, Str(<<>>)))}

DoReplaceAny == UNCHANGED <<faults, flight>> /\ \E id \in IdOrNone, d \in DocOrNone : Replace(id, d)
DoPatchAny == UNCHANGED <<faults, flight>> /\ \E id \in IdOrNone, d \in DocOrNone : Patch(id, d)
DoRemoveAny == UNCHANGED <<faults, flight>> /\ \E id \in IdOrNone : Remove(id)

RejectNext == DoInsertStored \/ DoReplaceAny \/ DoPatchAny \/ DoRemoveAny

RejectSpec == Init /\ [][RejectNext]_vars

---------------------------------------------------------------------------
(* $sw queries between completed inserts and removes.                      *)

FTG == <<116, 103>>         \* field "tg"
FTEqP == <<116, 61, 112>>   \* field "t=p"
SQ == <<113>>               \* "q"

\* documents with a value of t that starts with 'p', one that does not, an array
\* with one element of each kind, and fields whose names start with 't'
PrefixDocs ==
  LET docs == {DocTag, (FT :> Str(SQ)), (FT :> Arr(<<Str(SQ), Str(SP \o SQ)>>)),
               (FTG :> Str(SP)), (FTEqP :> Str(SQ))}
  IN docs \cup {WithId(d, Str(<<98>>)) : d \in docs}

\* the prefixes asked for: 'p' and 'p|'
Prefixes == {SP, SP \o SBar}
QPrefix(f, p) == Query(<<Cond(f, Ops(<<Op("$sw", Str(p))>>))>>)

DoInsertPrefix == UNCHANGED <<faults, flight>> /\ \E d \in PrefixDocs : Insert(d)
DoPrefixQuery == UNCHANGED <<faults, flight>> /\ \E p \in Prefixes : QueryCall(QPrefix(FT, p))

PrefixNext == DoInsertPrefix \/ DoRemove \/ DoPrefixQuery

PrefixSpec == Init /\ [][PrefixNext]_vars

---------------------------------------------------------------------------
(* query and count with keys and operators that are not supported.         *)

SAnd == <<36, 97, 110, 100>>   \* "$and"

\* query objects with a top-level `$` key other than $or: alone, and after a
\* field condition
QAnd == Query(<<Cond(SAnd, Arr(<<>>))>>)
QA5And == Query(<<Cond(FA, Num(5)), Cond(SAnd, Arr(<<>>))>>)
TopLevelUnsupported == {QAnd, QA5And}

\* query objects with the per-field operator $regex: alone, after a supported
\* operator, next to a key that is no operator, under $not, and in a sub-query of $or
QRegex == Query(<<Cond(FA, Ops(<<Op("$regex", Str(SP))>>))>>)
QEqRegex == Query(<<Cond(FA, Ops(<<Op("$eq", Num(5)), Op("$regex", Str(SP))>>))>>)
QNotRegex == Query(<<Cond(FA, Ops(<<Op("$not", Ops(<<Op("$regex", Str(SP))>>))>>))>>)
QOrRegex == Query(<<Cond(SOr, Or(<<QA5, QRegex>>))>>)
FieldUnsupported == {QRegex, QEqRegex, QNotRegex, QOrRegex}

DoQueryUnsupported ==
  UNCHANGED <<faults, flight>> /\ \E q \in TopLevelUnsupported \cup FieldUnsupported \cup {QA5} : QueryCall(q)
DoCountUnsupported ==
  UNCHANGED <<faults, flight>> /\ \E q \in TopLevelUnsupported \cup FieldUnsupported \cup {QA5} : CountCall(q)

UnsupportedNext == DoInsertStored \/ DoRemove \/ DoQueryUnsupported \/ DoCountUnsupported

UnsupportedSpec == Init /\ [][UnsupportedNext]_vars

---------------------------------------------------------------------------
(* One writer, write by write: a call makes its store writes one after the *)
(* other, and the database can be observed between any two of them.       *)

\* the writes a call has still to make, in the order of its awaits.  "retract" is
\* removeIndexesForDocument on the stored body, "index" is addToIndexes on the
\* record: the writes of such a step run under one Promise.all and land one key at a
\* time in any order (a key written twice is shown landing once, with its final
\* value).  "body", "delete", "batch", "inc", "dec" and "total" are single writes.
Write(k, id, rec) == [k |-> k, id |-> id, rec |-> rec, ids |-> <<>>, recs |-> <<>>]
BatchWrite(k, ids, recs) == [k |-> k, id |-> <<>>, rec |-> EmptyObj, ids |-> ids, recs |-> recs]

\* a call in flight: what it will return, its remaining writes, and the store the
\* running multi-key step leads to (landing is FALSE between steps)
InFlight(op, ret, todo) ==
  [op |-> op, ret |-> ret, todo |-> todo, landing |-> FALSE, target |-> EmptyStore]

\* the documents, arguments and batches of the calls
StepInsertDocs == {DocA5, WithId(DocAs5, Str(<<98>>)), WithId(DocA5, Undef)}
StepUpdateDocs == {Obj(DocTag)}
StepBatches == {<<WithId(DocTag, Str(<<98>>))>>, <<DocA5, WithId(DocAs5, Str(<<98>>))>>}

\* insert: lines 169-186
CallInsert(document) ==
  LET idv == IdOf(document) IN
  /\ flight = Idle
  /\ UNCHANGED <<store, faults>>
  /\ IF Truthy(idv) /\ Has(store, ToStr(idv))
     THEN /\ last' = Threw("insert", <<"already exists">>)
          /\ UNCHANGED <<genUsed, flight>>
     ELSE \E id \in (IF Truthy(idv) THEN {ToStr(idv)} ELSE GenIds \ genUsed) :
            LET puttableRecord == insertRecord(id, document) IN
            /\ genUsed' = (IF Truthy(idv) THEN genUsed ELSE genUsed \cup {id})
            /\ flight' = InFlight("insert", Obj(puttableRecord),
                                  <<Write("body", id, puttableRecord),
                                    Write("index", id, puttableRecord),
                                    Write("inc", id, puttableRecord)>>)
            /\ UNCHANGED last

\* replace (lines 192-218) and patch (lines 224-251)
CallUpdate(op, id, newDocument) ==
  /\ flight = Idle
  /\ UNCHANGED <<store, faults, genUsed>>
  /\ IF UpdateError(store, id, newDocument) # <<>>
     THEN /\ last' = Threw(op, UpdateError(store, id, newDocument))
          /\ UNCHANGED flight
     ELSE LET puttableRecord == IF op = "replace" THEN replaceRecord(id, newDocument.o)
                                ELSE patchRecord(id, store[id].doc, newDocument.o)
          IN /\ flight' = InFlight(op, Obj(puttableRecord),
                                   <<Write("retract", id, puttableRecord),
                                     Write("body", id, puttableRecord),
                                     Write("index", id, puttableRecord)>>)
             /\ UNCHANGED last

\* upsert: lines 631-654
CallUpsert(id, document) ==
  /\ flight = Idle
  /\ UNCHANGED <<store, faults, genUsed>>
  /\ IF UpsertError(id, document) # <<>>
     THEN /\ last' = Threw("upsert", UpsertError(id, document))
          /\ UNCHANGED flight
     ELSE LET existing == IF Has(store, id) THEN store[id].doc ELSE EmptyObj
              puttableRecord == patchRecord(id, existing, document.o)
          IN /\ flight' = InFlight("upsert", Obj(puttableRecord),
                                   <<Write(IF Has(store, id) THEN "retract" ELSE "inc",
                                           id, puttableRecord),
                                     Write("body", id, puttableRecord),
                                     Write("index", id, puttableRecord)>>)
             /\ UNCHANGED last

\* remove: lines 385-398
CallRemove(id) ==
  /\ flight = Idle
  /\ UNCHANGED <<store, faults, genUsed>>
  /\ IF RemoveError(store, id) # <<>>
     THEN /\ last' = Threw("remove", RemoveError(store, id))
          /\ UNCHANGED flight
     ELSE /\ flight' = InFlight("remove", Undef,
                                <<Write("retract", id, EmptyObj),
                                  Write("dec", id, EmptyObj),
                                  Write("delete", id, EmptyObj)>>)
          /\ UNCHANGED last

\* batchInsert without a rejected write: lines 592-612
CallBatchInsert(documents) ==
  /\ flight = Idle
  /\ UNCHANGED <<store, faults, last>>
  /\ \E ids \in assignIds(documents, GenIds \ genUsed) :
       LET n == Len(documents)
           records == [i \in 1..n |-> insertRecord(ids[i], documents[i])]
       IN /\ genUsed' = genUsed \cup {ids[i] : i \in {h \in 1..n : ~Truthy(IdOf(documents[h]))}}
          /\ flight' = InFlight("batchInsert", Arr([i \in 1..n |-> Obj(records[i])]),
                                <<BatchWrite("batch", ids, records)>>
                                  \o [i \in 1..n |-> Write("index", ids[i], records[i])]
                                  \o <<BatchWrite("total", ids, records)>>)

\* the store a single write leaves
written(st, w) ==
  CASE w.k = "body" -> Put(st, w.id, JsonText(w.rec))
    [] w.k = "delete" -> Del(st, w.id)
    [] w.k = "inc" -> incrementCount(st, <<>>, STotal, SDocuments)
    [] w.k = "dec" -> decrementCount(st, <<>>, STotal, SDocuments)
    [] w.k = "batch" -> batchPut(st, w.ids, w.recs, 1)
    [] w.k = "total" -> SetCount(st, TotalKey, getTotalCount(st) + Len(w.ids))

\* the stores a multi-key step can lead to
targets(st, w) ==
  IF w.k = "retract" THEN removeIndexesForDocument(st, w.id, st[w.id].doc)
  ELSE addToIndexes(st, w.id, w.rec)

\* the keys that have still to land, and the landing of one of them
Pending(st, target) ==
  {k \in DOMAIN st \cup DOMAIN target :
     ~(k \in DOMAIN st /\ k \in DOMAIN target /\ st[k] = target[k])}
Land(st, target, k) == IF k \in DOMAIN target THEN Put(st, k, target[k]) ELSE Del(st, k)

\* the call in flight after a write that left the store st on the way to target
Advanced(st, target) ==
  IF st = target
  THEN [flight EXCEPT !.todo = Tail(flight.todo), !.landing = FALSE, !.target = EmptyStore]
  ELSE [flight EXCEPT !.landing = TRUE, !.target = target]

\* a single write of the call in flight
WriteOne ==
  /\ flight # Idle
  /\ flight.todo # <<>>
  /\ Head(flight.todo).k \notin {"retract", "index"}
  /\ store' = written(store, Head(flight.todo))
  /\ CountersBounded(store')
  /\ flight' = [flight EXCEPT !.todo = Tail(flight.todo)]
  /\ UNCHANGED <<genUsed, last, faults>>

\* the first write of a multi-key step, or the step itself when it writes nothing
BeginLanding ==
  /\ flight # Idle
  /\ flight.todo # <<>>
  /\ Head(flight.todo).k \in {"retract", "index"}
  /\ ~flight.landing
  /\ \E target \in targets(store, Head(flight.todo)) :
       /\ CountersBounded(target)
       /\ \/ /\ target = store
             /\ UNCHANGED store
             /\ flight' = Advanced(store, target)
          \/ \E k \in Pending(store, target) :
               /\ store' = Land(store, target, k)
               /\ flight' = Advanced(store', target)
  /\ UNCHANGED <<genUsed, last, faults>>

\* a further write of a multi-key step
LandOne ==
  /\ flight # Idle
  /\ flight.landing
  /\ \E k \in Pending(store, flight.target) :
       /\ store' = Land(store, flight.target, k)
       /\ flight' = Advanced(store', flight.target)
  /\ UNCHANGED <<genUsed, last, faults>>

\* the call in flight has made its writes and returns
Return ==
  /\ flight # Idle
  /\ flight.todo = <<>>
  /\ last' = Returned(flight.op, flight.ret)
  /\ flight' = Idle
  /\ UNCHANGED <<store, genUsed, faults>>

DoCallInsert == \E d \in StepInsertDocs : CallInsert(d)
DoCallReplace == \E id \in IdArgs, d \in StepUpdateDocs : CallUpdate("replace", id, d)
DoCallPatch == \E id \in IdArgs, d \in StepUpdateDocs : CallUpdate("patch", id, d)
DoCallUpsert == \E id \in IdArgs, d \in StepUpdateDocs : CallUpsert(id, d)
DoCallRemove == \E id \in IdArgs : CallRemove(id)
DoCallBatchInsert == \E documents \in StepBatches : CallBatchInsert(documents)

StepNext ==
  \/ DoCallInsert \/ DoCallReplace \/ DoCallPatch \/ DoCallUpsert \/ DoCallRemove
  \/ DoCallBatchInsert
  \/ WriteOne \/ BeginLanding \/ LandOne \/ Return

StepSpec == Init /\ [][StepNext]_vars

---------------------------------------------------------------------------
(* incrementCount, attempt by attempt, on a store that can report a write  *)
(* conflict (LEVEL_LOCKED) or another error on any read or write.          *)

\* the store reports at most this many conflicts
MaxConflicts == 2

\* the counter the calls increment: 'counts.t=p'
IncKey == countKey(<<>>, FT, SP)

\* a call of incrementCount in flight: where it is in its loop, the value it read,
\* the attempts it has begun and the writes that succeeded
Counting(pc, currentCount, attempts, writes) ==
  [op |-> "incrementCount", pc |-> pc, currentCount |-> currentCount,
   attempts |-> attempts, writes |-> writes]
IsCounting == flight # Idle /\ flight.op = "incrementCount"

\* a document whose id is the key of the counter: its body is what an unparsable
\* counter value is
DocAtIncKey == WithId(DocA5, Str(IncKey))
DoInsertAtIncKey == UNCHANGED <<faults, flight>> /\ Insert(DocAtIncKey)

\* line 58: the call enters its loop
CallIncrement ==
  /\ flight = Idle
  /\ CountOf(store, IncKey) < MaxCount
  /\ flight' = Counting("read", 0, 1, 0)
  /\ UNCHANGED <<store, genUsed, last, faults>>

\* lines 61-73 read the counter; a conflict retries an attempt where the read value
\* is kept
WriteCounterKeepingRead ==
  /\ IsCounting
  /\ flight.pc = "write"
  /\ UNCHANGED genUsed
  /\ \/ /\ store' = SetCount(store, IncKey, flight.currentCount + 1)
        /\ CountersBounded(store')
        /\ flight' = [flight EXCEPT !.pc = "done", !.writes = @ + 1]
        /\ UNCHANGED <<last, faults>>
     \/ /\ faults < MaxConflicts
        /\ faults' = faults + 1
        /\ flight' = [flight EXCEPT !.attempts = @ + 1]
        /\ UNCHANGED <<store, last>>
     \/ /\ flight' = Idle
        /\ last' = Threw("incrementCount", <<"store error">>)
        /\ UNCHANGED <<store, faults>>

\* lines 61-73: db.get(countKey).then(Number); NaN and LEVEL_NOT_FOUND give 0, a
\* conflict goes to the next attempt (lines 83-85), another error is thrown (86-87)
ReadCounter ==
  /\ IsCounting
  /\ flight.pc = "read"
  /\ UNCHANGED <<store, genUsed>>
  /\ \/ /\ flight' = [flight EXCEPT !.pc = "write", !.currentCount = CountOf(store, IncKey)]
        /\ UNCHANGED <<last, faults>>
     \/ /\ faults < MaxConflicts
        /\ faults' = faults + 1
        /\ flight' = [flight EXCEPT !.attempts = @ + 1]
        /\ UNCHANGED last
     \/ /\ flight' = Idle
        /\ last' = Threw("incrementCount", <<"store error">>)
        /\ UNCHANGED faults

\* lines 75-77: db.put(countKey, (currentCount + 1).toString()), then break; a
\* conflict goes to the next attempt, which reads again; another error is thrown.
\* (Lines 79-82 handle LEVEL_NOT_FOUND, which Level reports for db.get only and which
\* lines 66-68 have already handled.)
WriteCounter ==
  /\ IsCounting
  /\ flight.pc = "write"
  /\ UNCHANGED genUsed
  /\ \/ /\ store' = SetCount(store, IncKey, flight.currentCount + 1)
        /\ CountersBounded(store')
        /\ flight' = [flight EXCEPT !.pc = "done", !.writes = @ + 1]
        /\ UNCHANGED <<last, faults>>
     \/ /\ faults < MaxConflicts
        /\ faults' = faults + 1
        /\ flight' = [flight EXCEPT !.pc = "read", !.attempts = @ + 1]
        /\ UNCHANGED <<store, last>>
     \/ /\ flight' = Idle
        /\ last' = Threw("incrementCount", <<"store error">>)
        /\ UNCHANGED <<store, faults>>

\* line 89: the call returns
ReturnFromIncrement ==
  /\ IsCounting
  /\ flight.pc = "done"
  /\ flight' = Idle
  /\ last' = Returned("incrementCount", Undef)
  /\ UNCHANGED <<store, genUsed, faults>>

IncrementNext ==
  DoInsertAtIncKey \/ CallIncrement \/ ReadCounter \/ WriteCounter \/ ReturnFromIncrement

IncrementSpec == Init /\ [][IncrementNext]_vars

\* the store answers every read and write of the loop
IncrementFairSpec ==
  IncrementSpec /\ WF_vars(ReadCounter) /\ WF_vars(WriteCounter) /\ WF_vars(ReturnFromIncrement)

---------------------------------------------------------------------------
(* Documents whose id lies among the counter keys.                         *)

\* documents with a generated id, the id 'b', and the id 'counts.t=p'
CounterDocs ==
  {DocTag, DocA5, DocTags, WithId(DocTag, Str(<<98>>)), WithId(DocA5, Str(<<98>>)), DocAtIncKey}

DoInsertCounted == UNCHANGED <<faults, flight>> /\ \E d \in CounterDocs : Insert(d)
DoReplaceCounted ==
  UNCHANGED <<faults, flight>> /\ \E id \in IdArgs, d \in StepUpdateDocs : Replace(id, d)

CounterNext == DoInsertCounted \/ DoReplaceCounted \/ DoRemove

CounterSpec == Init /\ [][CounterNext]_vars

---------------------------------------------------------------------------
(* removeIndexesForDocument applied on its own, as the rollback of         *)
(* batchInsert applies it, between completed inserts and removes.          *)

\* removeIndexesForDocument(id, document) for the record insert builds of document
Retract(id, document) ==
  /\ \E st \in removeIndexesForDocument(store, id, insertRecord(id, document)) : store' = st
  /\ last' = Returned("removeIndexesForDocument", Undef)
  /\ UNCHANGED genUsed

DoRetract == UNCHANGED <<faults, flight>> /\ \E id \in ExplicitIds \cup GenIds, d \in BatchDocs : Retract(id, d)

RetractNext == DoInsertOne \/ DoRemove \/ DoRetract

RetractSpec == Init /\ [][RetractNext]_vars

---------------------------------------------------------------------------
(* Two callers whose calls overlap.  Every await of a call is a point      *)
(* where the other call can run: a call reads the stored document when it  *)
(* starts, then makes its writes stage by stage; the writes of one stage   *)
(* run under one Promise.all and land in any order; incrementCount and     *)
(* decrementCount read the counter in one step and write it in another.    *)

Callers == {1, 2}

\* the calls the two callers may start altogether
MaxCalls == 2

\* one store access of a call: "put" and "del" of a key, the read of a counter
\* ("inc", "dec") and the write that follows it ("incw", "decw", n being the value
\* read); of keeps apart the accesses of one stage that have the same key
Task(k, key, v, of) == [k |-> k, key |-> key, v |-> v, n |-> 0, of |-> of]

\* a call that is running and a call that has returned
Running(op, id, ret, todo) == [op |-> op, st |-> "running", id |-> id, ret |-> ret, todo |-> todo]
Finished(call, result) == [op |-> call.op, st |-> "done", id |-> call.id, ret |-> result, todo |-> <<>>]

\* no call was started yet
NoCalls == [calls |-> [c \in Callers |-> Idle], started |-> 0]

IsRunning(c) == flight.calls[c] # Idle /\ flight.calls[c].st = "running"

\* a caller that has no call running may start one
MayStart(c) == ~IsRunning(c) /\ flight.started < MaxCalls

\* the call c starts
Started(c, call) ==
  [calls |-> [flight.calls EXCEPT ![c] = call], started |-> flight.started + 1]

\* an indexing that raises the counters and writes no index entry
indexTasksCountersOnly(id, object) ==
  {Task("inc", OpCountKey(op), Undef, op) : op \in IndexOps(object, <<>>)}

\* addToIndexes(id, object): lines 107-111
indexTasks(id, object) ==
  LET ops == IndexOps(object, <<>>)
  IN {Task("put", OpIndexKey(op, id), Text(id), op) : op \in ops}
       \cup {Task("inc", OpCountKey(op), Undef, op) : op \in ops}

\* a retraction that lowers the counters and leaves the index entries
retractTasksKeepingEntries(id, document) ==
  {Task("dec", OpCountKey(op), Undef, op) : op \in IndexOps(document, <<>>)}

\* removeIndexesForDocument(id, document): lines 138-142
retractTasks(id, document) ==
  LET ops == IndexOps(document, <<>>)
  IN {Task("del", OpIndexKey(op, id), Undef, op) : op \in ops}
       \cup {Task("dec", OpCountKey(op), Undef, op) : op \in ops}

bodyTask(id, record) == {Task("put", id, JsonText(record), <<>>)}
totalTask(k) == {Task(k, TotalKey, Undef, <<>>)}

\* the documents of the overlapping calls
DocB == WithId(DocA5, Str(<<98>>))                    \* {id: 'b', a: 5}
OverlapUpdates == {Obj(EmptyObj)}

\* insert: the lookup of lines 169-176, then lines 184-186
StartInsert(c, document) ==
  LET idv == IdOf(document) IN
  /\ MayStart(c)
  /\ UNCHANGED <<store, faults>>
  /\ IF Truthy(idv) /\ Has(store, ToStr(idv))
     THEN /\ flight' = Started(c, Finished(Running("insert", ToStr(idv), Undef, <<>>),
                                           Threw("insert", <<"already exists">>)))
          /\ last' = Threw("insert", <<"already exists">>)
          /\ UNCHANGED genUsed
     ELSE \E id \in (IF Truthy(idv) THEN {ToStr(idv)} ELSE GenIds \ genUsed) :
            LET puttableRecord == insertRecord(id, document) IN
            /\ genUsed' = (IF Truthy(idv) THEN genUsed ELSE genUsed \cup {id})
            /\ flight' = Started(c, Running("insert", id, Obj(puttableRecord),
                                            <<bodyTask(id, puttableRecord),
                                              indexTasks(id, puttableRecord),
                                              totalTask("inc")>>))
            /\ UNCHANGED last

\* replace and patch: the checks and the lookup of lines 192-209 (224-241), then
\* lines 211-218 (243-251)
StartUpdate(c, op, id, newDocument) ==
  /\ MayStart(c)
  /\ UNCHANGED <<store, faults, genUsed>>
  /\ IF UpdateError(store, id, newDocument) # <<>>
     THEN /\ flight' = Started(c, Finished(Running(op, id, Undef, <<>>),
                                           Threw(op, UpdateError(store, id, newDocument))))
          /\ last' = Threw(op, UpdateError(store, id, newDocument))
     ELSE LET puttableRecord == IF op = "replace" THEN replaceRecord(id, newDocument.o)
                                ELSE patchRecord(id, store[id].doc, newDocument.o)
          IN /\ flight' = Started(c, Running(op, id, Obj(puttableRecord),
                                             <<retractTasks(id, store[id].doc),
                                               bodyTask(id, puttableRecord),
                                               indexTasks(id, puttableRecord)>>))
             /\ UNCHANGED last

\* upsert: the lookup of line 640, then lines 642-654
StartUpsert(c, id, document) ==
  /\ MayStart(c)
  /\ UNCHANGED <<store, faults, genUsed, last>>
  /\ LET existing == IF Has(store, id) THEN store[id].doc ELSE EmptyObj
         puttableRecord == patchRecord(id, existing, document.o)
     IN flight' = Started(c, Running("upsert", id, Obj(puttableRecord),
                                     <<IF Has(store, id) THEN retractTasks(id, existing)
                                                         ELSE totalTask("inc"),
                                       bodyTask(id, puttableRecord),
                                       indexTasks(id, puttableRecord)>>))

\* remove: the lookup of lines 389-394, then lines 396-398
StartRemove(c, id) ==
  /\ MayStart(c)
  /\ UNCHANGED <<store, faults, genUsed>>
  /\ IF RemoveError(store, id) # <<>>
     THEN /\ flight' = Started(c, Finished(Running("remove", id, Undef, <<>>),
                                           Threw("remove", RemoveError(store, id))))
          /\ last' = Threw("remove", RemoveError(store, id))
     ELSE /\ flight' = Started(c, Running("remove", id, Undef,
                                          <<retractTasks(id, store[id].doc),
                                            totalTask("dec"),
                                            {Task("del", id, Undef, <<>>)}>>))
          /\ UNCHANGED last

\* an access whose counter write stores the value that was read
accessedKeepingCount(st, t) ==
  CASE t.k = "put" -> Put(st, t.key, t.v)
    [] t.k = "del" -> Del(st, t.key)
    [] t.k = "incw" -> SetCount(st, t.key, t.n)
    [] t.k = "decw" -> SetOrDelCount(st, t.key, t.n - 1)
    [] OTHER -> st

\* the store after the access t
accessed(st, t) ==
  CASE t.k = "put" -> Put(st, t.key, t.v)
    [] t.k = "del" -> Del(st, t.key)
    [] t.k = "incw" -> SetCount(st, t.key, t.n + 1)
    [] t.k = "decw" -> SetOrDelCount(st, t.key, t.n - 1)
    [] OTHER -> st

\* the accesses of the stage once t is made: the read of a counter leaves its write
remaining(st, stage, t) ==
  IF t.k \in {"inc", "dec"}
  THEN (stage \ {t}) \cup {[t EXCEPT !.k = IF t.k = "inc" THEN "incw" ELSE "decw",
                                     !.n = CountOf(st, t.key)]}
  ELSE stage \ {t}

\* the call c makes one store access of its current stage
Access(c) ==
  /\ IsRunning(c)
  /\ flight.calls[c].todo # <<>>
  /\ \E t \in Head(flight.calls[c].todo) :
       LET stage == remaining(store, Head(flight.calls[c].todo), t)
           todo == IF stage = {} THEN Tail(flight.calls[c].todo)
                   ELSE <<stage>> \o Tail(flight.calls[c].todo)
       IN /\ store' = accessed(store, t)
          /\ CountersBounded(store')
          /\ flight' = [flight EXCEPT !.calls[c].todo = todo]
  /\ UNCHANGED <<genUsed, last, faults>>

\* the call c has made its accesses and returns
Complete(c) ==
  /\ IsRunning(c)
  /\ flight.calls[c].todo = <<>>
  /\ last' = Returned(flight.calls[c].op, flight.calls[c].ret)
  /\ flight' = [flight EXCEPT !.calls[c] = Finished(flight.calls[c], last')]
  /\ UNCHANGED <<store, genUsed, faults>>

\* a call made before the overlapping ones, from its start to its return
Quiet == flight = NoCalls
DoInsertBefore == Quiet /\ UNCHANGED <<faults, flight>> /\ \E d \in {DocA5, DocB} : Insert(d)
DoInsertSameBefore == Quiet /\ UNCHANGED <<faults, flight>> /\ Insert(DocB)

DoAccess == \E c \in Callers : Access(c)
DoComplete == \E c \in Callers : Complete(c)

OverlapInit ==
  /\ store = EmptyStore
  /\ genUsed = {}
  /\ last = Returned("open", Undef)
  /\ faults = 0
  /\ flight = NoCalls

\* both callers work on the id a caller supplies; the callers differ in name only, so
\* the first call is the first caller's
InTurn(c) == \A b \in Callers : b < c => flight.calls[b] # Idle
DoInsertSame == \E c \in Callers : InTurn(c) /\ StartInsert(c, DocB)
DoReplaceSame ==
  \E c \in Callers, id \in ExplicitIds, d \in OverlapUpdates :
    InTurn(c) /\ StartUpdate(c, "replace", id, d)
DoPatchSame ==
  \E c \in Callers, id \in ExplicitIds, d \in OverlapUpdates :
    InTurn(c) /\ StartUpdate(c, "patch", id, d)
DoUpsertSame ==
  \E c \in Callers, id \in ExplicitIds, d \in OverlapUpdates :
    InTurn(c) /\ StartUpsert(c, id, d)
DoRemoveSame == \E c \in Callers, id \in ExplicitIds : InTurn(c) /\ StartRemove(c, id)

SameIdNext ==
  \/ DoInsertSameBefore
  \/ DoInsertSame \/ DoReplaceSame \/ DoPatchSame \/ DoUpsertSame \/ DoRemoveSame
  \/ DoAccess \/ DoComplete

SameIdSpec == OverlapInit /\ [][SameIdNext]_vars

\* each caller works on an id of its own: the first on the id it supplies, the second
\* on the generated one
OwnIds(c) == IF c = 1 THEN ExplicitIds ELSE genUsed
OwnInsert(c) == IF c = 1 THEN DocB ELSE DocA5

DoInsertOwn == \E c \in Callers : StartInsert(c, OwnInsert(c))
DoReplaceOwn ==
  \E c \in Callers : \E id \in OwnIds(c), d \in OverlapUpdates : StartUpdate(c, "replace", id, d)
DoPatchOwn ==
  \E c \in Callers : \E id \in OwnIds(c), d \in OverlapUpdates : StartUpdate(c, "patch", id, d)
DoUpsertOwn ==
  \E c \in Callers : \E id \in OwnIds(c), d \in OverlapUpdates : StartUpsert(c, id, d)
DoRemoveOwn == \E c \in Callers : \E id \in OwnIds(c) : StartRemove(c, id)

OwnIdNext ==
  \/ DoInsertBefore
  \/ DoInsertOwn \/ DoReplaceOwn \/ DoPatchOwn \/ DoUpsertOwn \/ DoRemoveOwn
  \/ DoAccess \/ DoComplete

OwnIdSpec == OverlapInit /\ [][OwnIdNext]_vars

---------------------------------------------------------------------------
(* A query in two steps: the id-set is computed from the index, and the    *)
(* documents are read when the id-set is complete (line 552); inserts and  *)
(* removes can complete in between.                                        *)

\* a query that has its id-set and has not read the documents yet
Reading(got, options) == [op |-> "query", got |-> got, options |-> options]

VanishQueries == {NoQuery, QA5}
VanishOptions ==
  {NoOptions, Options(NotGiven, NotGiven, <<<<FA, 1>>>>, NoProject),
   Options(NotGiven, NotGiven, NoSort, Fields(<<FA>>))}

\* query, lines 526-550: the loop over the conditions
CallQuery(queryObject, options) ==
  /\ flight = Idle
  /\ flight' = Reading(queryFrom(store, conditionsOf(queryObject), 1, <<>>), options)
  /\ UNCHANGED <<store, genUsed, last, faults>>

\* query, lines 552-579: the reads, the sort, the projection and the page
ReadResults ==
  /\ flight # Idle
  /\ flight.op = "query"
  /\ LET got == resultsOf(store, flight.got, flight.options)
     IN last' = (IF got.err = <<>> THEN Returned("query", Arr(got.docs))
                                   ELSE Threw("query", got.err))
  /\ flight' = Idle
  /\ UNCHANGED <<store, genUsed, faults>>

DoCallQuery == \E q \in VanishQueries, o \in VanishOptions : CallQuery(q, o)

VanishNext == DoInsertOne \/ DoRemove \/ DoCallQuery \/ ReadResults

VanishSpec == Init /\ [][VanishNext]_vars

---------------------------------------------------------------------------
(* Index keys of values and ids that contain the separators of the key.    *)

SXeqY == <<120, 61, 121>>                              \* "x=y"
SXbarY == <<120, 124, 121>>                            \* "x|y"
SYbarB == <<121, 124, 98>>                             \* "y|b"
KeyValues == {SX, SXeqY, SXbarY}
KeyDocs ==
  {(FA :> Str(v)) : v \in KeyValues}
    \cup {WithId((FA :> Str(SXbarY)), Str(<<98>>)), WithId((FA :> Str(SXeqY)), Str(<<98>>)),
          WithId((FA :> Str(SX)), Str(SYbarB))}

DoInsertKeyed == UNCHANGED <<faults, flight>> /\ \E d \in KeyDocs : Insert(d)
DoFindKeyed ==
  UNCHANGED <<faults, flight>> /\ \E v \in KeyValues : FindCall(FA, Str(v), NoFindOptions)

KeyNext == DoInsertKeyed \/ DoRemove \/ DoFindKeyed

KeySpec == Init /\ [][KeyNext]_vars

---------------------------------------------------------------------------
(* Index entries, documents and counters as the specification describes    *)
(* them, for the properties below.                                         *)

\* every id a run can store a document under
KnownIds == ExplicitIds \cup GenIds

\* the index keys stored for an id: the entries whose value is the id
IndexKeysOf(st, id) == {k \in DOMAIN st : IsIndexKey(k) /\ st[k] = Text(id)}

\* the (field path, value) pairs of a document: one per scalar leaf at its
\* dot-joined path, one per array element under the array's field name
RECURSIVE Leaves(_, _)
Leaves(object, path) ==
  UNION { LET value == object[key] IN
          IF value.t = "obj" THEN Leaves(value.o, path \o key \o SDot)
          ELSE IF value.t = "arr"
          THEN {<<path \o key, ToStr(value.a[i])>> : i \in 1..Len(value.a)}
          ELSE {<<path \o key, ToStr(value)>>}
        : key \in DOMAIN object }

\* the index keys derivable from the document stored under id
DerivableKeys(st, id) ==
  IF id \in DocIds(st)
  THEN {SIndexes \o SDot \o e[1] \o SEq \o e[2] \o SBar \o id : e \in Leaves(st[id].doc, <<>>)}
  ELSE {}

\* 'prefix.key=value' of an index key and of a counter key
EntryBody(st, k) == SubSeq(k, Len(SIndexes) + 1, Len(k) - Len(st[k].s) - 1)
CounterBody(k) == SubSeq(k, Len(SCounts) + 1, Len(k))
IndexKeys(st) == {k \in DOMAIN st : IsIndexKey(k)}
FieldCountKeys(st) == {k \in DOMAIN st : IsCountKey(k) /\ k # TotalKey}

\* C1 (as claimed): after any sequence of completed insert, replace, patch, upsert
\* and remove calls, the index keys stored for every id are exactly those derivable
\* from the document stored under it, and none when no document is stored.
C1_IndexEqualsDerivable ==
  \A id \in KnownIds : IndexKeysOf(store, id) = DerivableKeys(store, id)

\* C3 (as claimed): for every field path and value the counter equals the number of
\* index entries stored for them, and no counter key is kept at 0.
C3_CounterEqualsEntries ==
  /\ \A ck \in FieldCountKeys(store) :
       /\ CountOf(store, ck) > 0
       /\ CountOf(store, ck) =
            Cardinality({k \in IndexKeys(store) : EntryBody(store, k) = CounterBody(ck)})
  /\ \A k \in IndexKeys(store) : Has(store, SCounts \o EntryBody(store, k))

\* C6 (as claimed): every stored document body carries an id equal to its key.
C6_BodyIdIsKey ==
  \A k \in DocIds(store) : SId \in DOMAIN store[k].doc /\ store[k].doc[SId] = Str(k)

\* C2 (as claimed): after any sequence of completed insert, replace, patch, upsert
\* and remove calls, count() with no query and count({}) both return the number of
\* documents currently stored.
C2_CountIsDocuments ==
  /\ count(store, NoQuery) = Count(Cardinality(DocIds(store)))
  /\ count(store, Query(<<>>)) = Count(Cardinality(DocIds(store)))

\* D's id is absent, or is a string no document is stored under
IdAbsentOrUnused(d) == SId \notin DOMAIN d \/ (d[SId].t = "str" /\ ~Has(store, d[SId].s))

\* insert resolved with R: R carries D's id when D has one and an id that was not in
\* use otherwise, and read(R.id) on the store the call left returns R
ReturnsStored(d) ==
  /\ last'.ok
  /\ last'.ret.t = "obj"
  /\ SId \in DOMAIN last'.ret.o
  /\ IF SId \in DOMAIN d THEN last'.ret.o[SId] = d[SId]
                          ELSE /\ last'.ret.o[SId].t = "str"
                               /\ ~Has(store, last'.ret.o[SId].s)
  /\ read(store', ToStr(last'.ret.o[SId])) = last'.ret

\* C7 (as claimed): for every document D whose id is absent or a string not yet
\* stored, insert(D) returns R with R.id = D.id when given and a fresh id otherwise,
\* and read(R.id) immediately afterwards returns a document equal to R.
C7_InsertThenRead ==
  [][\A d \in InsertDocs : (IdAbsentOrUnused(d) /\ Insert(d)) => ReturnsStored(d)]_vars

\* the queries without $or
PlainQueries == {q \in Queries : q.t = "query" /\ \A i \in 1..Len(q.conds) : q.conds[i].key # SOr}

\* C4 (as claimed): for every query Q without $or, count(Q) is the length of query(Q).
C4_CountIsQueryLength ==
  \A q \in PlainQueries :
    /\ count(store, q).err = <<>>
    /\ query(store, q, NoOptions).err = <<>>
    /\ count(store, q).n = Len(query(store, q, NoOptions).docs)

\* the documents stored, and the documents query returns for a query object
StoredDocuments(st) == {read(st, k) : k \in DocIds(st)}
Returns(st, q) == Elems(query(st, q, NoOptions).docs)

\* an operator query after its complement: $eq and $ne, $in and $nin (also with an
\* empty list), an operator expression and its $not
Complements == {<<QEq, QNe>>, <<QIn, QNin>>, <<QInNone, QNinNone>>, <<QGt, QNotGt>>}

\* C5 (as claimed): $ne, $nin and $not return exactly the stored documents that $eq,
\* $in and the negated expression do not return, whatever the ids of the documents.
C5_ComplementOverAllDocuments ==
  \A pair \in Complements :
    /\ query(store, pair[2], NoOptions).err = <<>>
    /\ Returns(store, pair[2]) = StoredDocuments(store) \ Returns(store, pair[1])

\* the ids of the documents a successful batchInsert returned
ReturnedIds(ret) == {ToStr(ret.a[i].o[SId]) : i \in 1..Len(ret.a)}

\* C8 (as claimed): after a successful batchInsert a document is stored under the id
\* of every document of the batch, and the index keys stored for each of these ids
\* are exactly those derivable from the document now stored under it.
C8_BatchStoredAndIndexed ==
  [][(last'.op = "batchInsert" /\ last'.ok) =>
       \A id \in ReturnedIds(last'.ret) :
         /\ id \in DocIds(store')
         /\ IndexKeysOf(store', id) = DerivableKeys(store', id)]_vars

\* the ids of a batch: those the documents carry and those uuid() produced in the call
BatchIds(documents) ==
  {ToStr(IdOf(documents[i])) : i \in {h \in 1..Len(documents) : Truthy(IdOf(documents[h]))}}
    \cup (genUsed' \ genUsed)

\* C9 (as claimed): a batchInsert that fails after the batch of bodies was written
\* rejects with the error of the failed write, and once its sub-writes have settled
\* no id of the batch has an index entry without a document stored under it.
C9_FailedBatchLeavesNoDanglingIndex ==
  [][\A documents \in Batches :
       (BatchInsert(documents) /\ faults' = faults + 1 /\ last'.err # BatchFailed) =>
         /\ last' = Threw("batchInsert", WriteFailed)
         /\ \A id \in BatchIds(documents) :
              id \in DocIds(store') \/ IndexKeysOf(store', id) = {}]_vars

\* v lies within the bounds given, under string order
Within(v, o) ==
  /\ o.gt = Undef \/ StrLess(ToStr(o.gt), v)
  /\ o.gte = Undef \/ StrLeq(ToStr(o.gte), v)
  /\ o.lt = Undef \/ StrLess(v, ToStr(o.lt))
  /\ o.lte = Undef \/ StrLeq(v, ToStr(o.lte))

\* the index keys, among those filter(f, fn) goes through, whose value is within the
\* bounds
RECURSIVE KeepWithin(_, _)
KeepWithin(keys, o) ==
  IF keys = <<>> THEN <<>>
  ELSE (IF Within(lvalueOf(Head(keys)), o) THEN <<Head(keys)>> ELSE <<>>)
       \o KeepWithin(Tail(keys), o)

Unbounded(st, key, fn) ==
  matchingByFunction(dbKeys(st, functionRange(key, NoFindOptions)), fn)

\* the matcher functions among the arguments
Predicates == {m \in Matchers : IsFunction(m)}

\* C10 (as claimed): in predicate mode filter(f, fn, bounds) returns exactly the
\* documents of filter(f, fn) whose matched value lies within the bounds under string
\* order.
C10_BoundsOnlyPrune ==
  \A fn \in Predicates, o \in FindOptionSets :
    filter(store, FN, fn, o) = resultOf(store, KeepWithin(Unbounded(store, FN, fn), o), "filter")

---------------------------------------------------------------------------
(* Paging of filter, and find against filter.                              *)

\* every index key of the field, ascending, whose value the matcher accepts
MatchingEntries(st, key, m) ==
  IF IsFunction(m) THEN Unbounded(st, key, m)
  ELSE matchingByValue(dbKeys(st, functionRange(key, NoFindOptions)), m)

\* the entries left after dropping the first skip and keeping the next limit
PageOfEntries(entries, o) ==
  LET s == IF o.skip = NotGiven THEN 0 ELSE o.skip
  IN IF o.limit = NotGiven THEN Slice(entries, s, Len(entries))
     ELSE Slice(entries, s, s + o.limit)

\* C11 (as claimed): filter(f, x, {skip: s, limit: l}) returns the documents of the
\* matching index entries s+1 .. s+l in ascending key order, and never more than l
\* documents, for every l >= 0.
C11_FilterSkipLimit ==
  \A a \in FindArgs, o \in PageOptions :
    /\ filter(store, a[1], a[2], o)
         = resultOf(store, PageOfEntries(MatchingEntries(store, a[1], a[2]), o), "filter")
    /\ o.limit # NotGiven => Len(filter(store, a[1], a[2], o).a) <= o.limit

\* the first element of an array, or undefined
FirstOf(arr) == IF arr.a = <<>> THEN Undef ELSE arr.a[1]

\* C12: find(f, x, options) is the first element of filter(f, x, options with
\* limit 1), or undefined when that array is empty, for every skip and bound, for a
\* value and for a predicate, on top-level fields, nested paths and array fields.
C12_FindIsFirstOfFilter ==
  \A a \in FindArgs, o \in FindOptionSets \cup PageOptions :
    find(store, a[1], a[2], o) = FirstOf(filter(store, a[1], a[2], [o EXCEPT !.limit = 1]))

\* find was called with a skip that passes over a match and returned the document of
\* a later one
C12_FindSkipsToLaterMatch ==
  /\ last.op = "find"
  /\ last.ret.t = "obj"
  /\ \E a \in FindArgs, o \in PageOptions :
       /\ o.skip = 1
       /\ last.ret = find(store, a[1], a[2], o)
       /\ last.ret # find(store, a[1], a[2], NoFindOptions)

---------------------------------------------------------------------------
(* Conditions joined by AND and $or.                                       *)

\* the documents one operator of a field condition selects, as query returns them
\* for the condition alone
OperatorDocs(st, key, ops) ==
  {d \in StoredDocuments(st) :
     \A i \in 1..Len(ops) : d \in Returns(st, Query(<<Cond(key, Ops(<<ops[i]>>))>>))}

\* the documents one top-level entry of a query object admits: for $or those of at
\* least one sub-query, for a field those of each of its operators
EntryDocs(st, c) ==
  IF c.key = SOr
  THEN UNION {Returns(st, c.cond.subs[i]) : i \in 1..Len(c.cond.subs)}
  ELSE IF IsOperators(c.cond) THEN OperatorDocs(st, c.key, c.cond.ops)
  ELSE Returns(st, Query(<<c>>))

\* C13 (as claimed): query(Q) returns exactly the stored documents that every
\* top-level field condition of Q admits and, for $or, that at least one sub-query
\* returns; several operators under one field are intersected; the documents returned
\* are the same for either order of the keys.
C13_ConditionsIntersectOrUnites ==
  \A q \in CompoundQueries :
    /\ query(store, q, NoOptions).err = <<>>
    /\ Returns(store, q)
         = {d \in StoredDocuments(store) : \A i \in 1..Len(q.conds) : d \in EntryDocs(store, q.conds[i])}

---------------------------------------------------------------------------
(* What the operators select, told on the documents themselves.            *)

\* the value of a document at a dot-joined path, undefined when the path leaves the
\* document
RECURSIVE ValueAtSegments(_, _)
ValueAtSegments(value, segments) ==
  IF segments = <<>> THEN value
  ELSE IF value.t = "obj" /\ Head(segments) \in DOMAIN value.o
  THEN ValueAtSegments(value.o[Head(segments)], Tail(segments))
  ELSE Undef
ValueAt(doc, path) == ValueAtSegments(doc, Split(path, SDot))

\* the value is v, or an array with an element v; a number and a string differ
IsOrContains(value, v) ==
  value = v \/ (value.t = "arr" /\ \E i \in 1..Len(value.a) : value.a[i] = v)

\* C14 (as claimed): query({f: v}) and query({f: {$eq: v}}) return exactly the stored
\* documents whose value at path f is v or is an array containing v, a number and
\* the string of its digits being different values.
C14_EqualSelectsSameTypedValue ==
  \A c \in EqCases :
    /\ query(store, QLiteral(c), NoOptions).err = <<>>
    /\ query(store, QEqual(c), NoOptions).err = <<>>
    /\ Returns(store, QLiteral(c))
         = {d \in StoredDocuments(store) : IsOrContains(ValueAt(d, c[1]), c[2])}
    /\ Returns(store, QEqual(c)) = Returns(store, QLiteral(c))

\* a number, or a string that is written as one
IsNumeral(v) == v.t = "num" \/ (v.t = "str" /\ v.s # <<>> /\ IsDigits(v.s))
NumberOf(v) == IF v.t = "num" THEN v.n ELSE DigitsVal(v.s)

Compares(op, m, n) ==
  \/ op = "$gt" /\ m > n
  \/ op = "$gte" /\ m >= n
  \/ op = "$lt" /\ m < n
  \/ op = "$lte" /\ m <= n

\* the value, or an element of the array, is a numeral that compares with n
NumeralCompares(value, op, n) ==
  \/ IsNumeral(value) /\ Compares(op, NumberOf(value), n)
  \/ /\ value.t = "arr"
     /\ \E i \in 1..Len(value.a) :
          IsNumeral(value.a[i]) /\ Compares(op, NumberOf(value.a[i]), n)

\* C15 (as claimed): query({f: {op: n}}) with op among $gt, $gte, $lt, $lte returns
\* exactly the documents with a numeric value (or array element) at f that compares
\* accordingly with n; a value that is not a numeral (a word, the empty string, a
\* boolean, null) is never returned.
C15_RangeSelectsNumerals ==
  \A c \in RangeCases :
    /\ query(store, QRange(c), NoOptions).err = <<>>
    /\ Returns(store, QRange(c))
         = {d \in StoredDocuments(store) : NumeralCompares(ValueAt(d, FA), c[1], c[2])}

\* the document has the field, whatever its value
HasField(doc, f) == ValueAt(doc, f) # Undef

\* C16 (as claimed): query({f: {$exists: true}}) returns exactly the stored documents
\* that have the field f, whatever its value (a scalar, an array, a nested object),
\* and query({f: {$exists: false}}) exactly the other stored documents.
C16_ExistsSelectsDocumentsWithField ==
  \A f \in ExistsFields :
    /\ query(store, QHas(f, TRUE), NoOptions).err = <<>>
    /\ query(store, QHas(f, FALSE), NoOptions).err = <<>>
    /\ Returns(store, QHas(f, TRUE)) = {d \in StoredDocuments(store) : HasField(d, f)}
    /\ Returns(store, QHas(f, FALSE)) = {d \in StoredDocuments(store) : ~HasField(d, f)}

---------------------------------------------------------------------------
(* Sorting, projecting and paging of query results.                        *)

\* numbers in numeric order, strings in string order
ValueLess(x, y) ==
  \/ x.t = "num" /\ y.t = "num" /\ x.n < y.n
  \/ x.t = "str" /\ y.t = "str" /\ StrLess(x.s, y.s)

\* -1 when a goes before b by the sort fields in the order given, 1 when after, 0 when
\* they are equal on every sort field; a sort field is a path into the document
RECURSIVE OrderOf(_, _, _)
OrderOf(a, b, sortFields) ==
  IF sortFields = <<>> THEN 0
  ELSE IF ValueLess(ValueAt(a, Head(sortFields)[1]), ValueAt(b, Head(sortFields)[1]))
  THEN Head(sortFields)[2] * (-1)
  ELSE IF ValueLess(ValueAt(b, Head(sortFields)[1]), ValueAt(a, Head(sortFields)[1]))
  THEN Head(sortFields)[2]
  ELSE OrderOf(a, b, Tail(sortFields))

\* how many documents of the list go before the one at position i: those ordered
\* before it, and those equal to it that stand earlier
RankOf(docs, i, sortFields) ==
  Cardinality({j \in 1..Len(docs) :
                 \/ OrderOf(docs[j], docs[i], sortFields) < 0
                 \/ OrderOf(docs[j], docs[i], sortFields) = 0 /\ j < i})

\* the list in sort order
InOrder(docs, sortFields) ==
  [k \in 1..Len(docs) |-> docs[CHOOSE i \in 1..Len(docs) : RankOf(docs, i, sortFields) = k - 1]]

SortOnly(sort) == Options(NotGiven, NotGiven, sort, NoProject)

\* C17 (as claimed): query(Q, {sort}) returns the matching documents ordered by the
\* sort fields in the order given, 1 ascending and -1 descending, ties on every field
\* keeping their relative order, a sort field being possibly a dot-joined path into a
\* nested object.
C17_SortOrdersByFields ==
  \A q \in SortQueries, sort \in Sorts :
    /\ query(store, q, SortOnly(sort)).err = <<>>
    /\ query(store, q, SortOnly(sort)).docs = InOrder(query(store, q, NoOptions).docs, sort)

\* a document reduced to those of the fields it has
ReducedTo(doc, project) ==
  IF project.t = "undef" THEN doc
  ELSE Obj([f \in {g \in DOMAIN doc.o : \E i \in 1..Len(project.fields) : project.fields[i] = g}
              |-> doc.o[f]])

\* the elements offset .. offset+limit-1 of a list, all from offset on without a limit
Window(docs, options) ==
  LET from == IF options.offset = NotGiven THEN 0 ELSE options.offset
  IN [k \in 1..(IF from >= Len(docs) THEN 0
                ELSE IF options.limit = NotGiven \/ from + options.limit > Len(docs)
                THEN Len(docs) - from
                ELSE options.limit)
        |-> docs[from + k]]

\* C18: query(Q, options) is the window offset .. offset+limit-1 of the list
\* query(Q, {sort}) returns, each document reduced to the projected fields it has: all
\* remaining elements without a limit, none with an offset past the end, and in sort
\* order also when the sort field is not projected.
C18_SortThenProjectThenSlice ==
  \A q \in SortQueries, o \in QueryOptionSets :
    /\ query(store, q, o).err = <<>>
    /\ query(store, q, o).docs
         = Window([k \in 1..Len(query(store, q, SortOnly(o.sort)).docs)
                     |-> ReducedTo(query(store, q, SortOnly(o.sort)).docs[k], o.project)],
                  o)

\* a query sorted by a field it does not project, with an offset, has returned
\* documents, and sorting changed the order of the matching documents
C18_SortedProjectedWindow ==
  /\ last.op = "query"
  /\ last.ok
  /\ last.ret.a # <<>>
  /\ \E q \in SortQueries, p \in {Fields(<<FN, FT>>)} :
       /\ last.ret.a = query(store, q, Options(1, 2, <<<<FV, 1>>>>, p)).docs
       /\ query(store, q, SortOnly(<<<<FV, 1>>>>)).docs # query(store, q, NoOptions).docs

---------------------------------------------------------------------------
(* replace and patch.                                                      *)

\* the fields of a document plus id
FieldsPlusId(fields, id) ==
  [f \in DOMAIN fields \cup {SId} |-> IF f = SId THEN Str(id) ELSE fields[f]]

\* the index keys derivable from the document stored under id before the step and
\* not from the one stored after it
DerivedOnlyFromPrevious(id) == DerivableKeys(store, id) \ DerivableKeys(store', id)

\* C19 (as claimed): after a successful replace(id, N), read(id) returns exactly the
\* fields of N plus id, no index entry derived only from the previous document
\* remains, and the total document counter is unchanged.
C19_ReplaceLeavesOnlyNew ==
  [][\A id \in KnownIds, n \in ReplaceWith :
       (last'.op = "replace" /\ last'.ok /\ Replace(id, n))
         => /\ read(store', id) = Obj(FieldsPlusId(n.o, id))
            /\ DerivedOnlyFromPrevious(id) \cap DOMAIN store' = {}
            /\ getTotalCount(store') = getTotalCount(store)]_vars

\* the shallow merge of the stored document and a patch, under the id it is stored at
Merged(existing, patch, id) ==
  [f \in DOMAIN existing \cup DOMAIN patch \cup {SId} |->
     IF f = SId THEN Str(id) ELSE IF f \in DOMAIN patch THEN patch[f] ELSE existing[f]]

\* the index keys of the fields of the stored document that a patch does not name
UntouchedKeys(existing, patch, id) ==
  {SIndexes \o SDot \o e[1] \o SEq \o e[2] \o SBar \o id :
     e \in Leaves([f \in DOMAIN existing \ (DOMAIN patch \cup {SId}) |-> existing[f]], <<>>)}

\* C20: after a successful patch(id, P) on the stored document E, read(id) returns the
\* shallow merge of E and P under the same id (a nested object of P replaces that of E
\* whole); the index entries of overwritten values are gone and those of the fields P
\* does not name are present.
C20_PatchMergesShallow ==
  [][\A id \in KnownIds, p \in PatchWith :
       (last'.op = "patch" /\ last'.ok /\ Patch(id, p))
         => /\ read(store', id) = Obj(Merged(store[id].doc, p.o, id))
            /\ DerivedOnlyFromPrevious(id) \cap DOMAIN store' = {}
            /\ UntouchedKeys(store[id].doc, p.o, id) \subseteq DOMAIN store']_vars

\* a patch has returned a document that holds a field of the patch next to a field the
\* stored document had, and the document is stored
C20_PatchedKeepsOtherField ==
  /\ last.op = "patch"
  /\ last.ok
  /\ {FA, FT} \subseteq DOMAIN last.ret.o
  /\ \E id \in KnownIds : read(store, id) = last.ret

---------------------------------------------------------------------------
(* remove, upsert and the calls that fail.                                 *)

\* C21 (as claimed): after a successful remove(id), read(id) is absent, no index key
\* for that id remains, the total counter is one lower than before the call, and the
\* documents and index entries of every other id are unchanged.
C21_RemoveRetractsAll ==
  [][\A id \in KnownIds :
       (last'.op = "remove" /\ last'.ok /\ Remove(id))
         => /\ read(store', id) = Undef
            /\ IndexKeysOf(store', id) = {}
            /\ getTotalCount(store') = getTotalCount(store) - 1
            /\ \A other \in KnownIds \ {id} :
                 /\ read(store', other) = read(store, other)
                 /\ IndexKeysOf(store', other) = IndexKeysOf(store, other)]_vars

\* the document stored under id, or the empty document when none is
StoredOrEmpty(st, id) == IF Has(st, id) THEN st[id].doc ELSE EmptyObj

\* C22 (as claimed): upsert(id, D) succeeds whether or not a document is stored under
\* id; when E is stored the stored result is the shallow merge of E and D under id,
\* the index entries of id are those of the result and the total counter is unchanged;
\* when none is stored D is stored under id with its index entries and the total
\* counter rises by exactly one.
C22_UpsertMergesOrInserts ==
  [][\A id \in KnownIds, d \in UpsertWith :
       (last'.op = "upsert" /\ Upsert(id, d))
         => /\ last'.ok
            /\ read(store', id) = Obj(Merged(StoredOrEmpty(store, id), d.o, id))
            /\ IndexKeysOf(store', id) = DerivableKeys(store', id)
            /\ getTotalCount(store') =
                 getTotalCount(store) + (IF Has(store, id) THEN 0 ELSE 1)]_vars

\* D carries the id of a stored document
HasStoredId(d) == SId \in DOMAIN d /\ d[SId].t = "str" /\ d[SId].s \in DocIds(store)

\* C23: insert(D) with D.id equal to the id of a stored document fails with an
\* 'already exists' error and changes no key of the store: the stored body, every
\* index entry and every counter keep their values.
C23_InsertCollisionChangesNothing ==
  [][\A d \in InsertDocs :
       (last'.op = "insert" /\ HasStoredId(d) /\ Insert(d))
         => /\ ~last'.ok
            /\ last'.err = <<"already exists">>
            /\ store' = store]_vars

\* an insert has been rejected as a collision while a document was stored
C23_CollisionRejected ==
  /\ last.op = "insert"
  /\ ~last.ok
  /\ last.err = <<"already exists">>
  /\ \E id \in ExplicitIds : id \in DocIds(store)

\* the ids of the calls below, a missing id included
AnyIds == KnownIds \cup {<<>>}

\* no document is stored under id (a missing id included)
MissingOrNotStored(id) == id = <<>> \/ id \notin DocIds(store)

\* newDocument is missing, or carries an id property with a value other than id
MissingOrOtherId(id, d) ==
  d.t = "undef" \/ (IdOf(d.o).t # "undef" /\ IdOf(d.o) # Str(id))

\* newDocument is missing, or carries a non-empty id other than id
MissingOrOtherGivenId(id, d) ==
  d.t = "undef" \/ (Truthy(IdOf(d.o)) /\ IdOf(d.o) # Str(id))

\* the call recorded in the next state was rejected and left the store as it was
RejectedUnchanged == ~last'.ok /\ store' = store

C25_BatchKeepsCount ==
  [][\A documents \in Batches :
       (last'.op = "batchInsert" /\ last'.ok /\ BatchInsert(documents))
         => count(store', NoQuery) = Count(Cardinality(DocIds(store')))]_vars

---------------------------------------------------------------------------
(* Prefix queries and unsupported operators.                               *)

\* the document has at path f a scalar, or an array element, whose string form
\* starts with p
HasPrefixed(doc, f, p) == \E e \in Leaves(doc.o, <<>>) : e[1] = f /\ StartsWith(e[2], p)

\* C26 (as claimed): query({f: {$sw: p}}) returns exactly the stored documents having
\* at path f a value (scalar or array element) whose string form starts with p; other
\* values, and values of fields whose names extend f, are never matched.
C26_PrefixSelectsByValue ==
  \A p \in Prefixes :
    /\ query(store, QPrefix(FT, p), NoOptions).err = <<>>
    /\ Returns(store, QPrefix(FT, p)) = {d \in StoredDocuments(store) : HasPrefixed(d, FT, p)}

\* the error names the operator and the field: it is, or wraps, the error of op on key
RECURSIVE NamesOperator(_, _, _)
NamesOperator(err, op, key) ==
  /\ Len(err) >= 4
  /\ err[1] = "Error processing"
  /\ err[4] = key
  /\ (err[2] = op \/ NamesOperator(SubSeq(err, 5, Len(err)), op, key))

\* the call recorded in the next state was a query or a count, called with q
QueryOrCountOf(q) ==
  \/ last'.op = "query" /\ QueryCall(q)
  \/ last'.op = "count" /\ CountCall(q)

\* C27: query and count reject, without touching the store, a query object with a
\* top-level `$` key other than $or and any per-field operator outside the supported
\* set; the error for a per-field operator names the operator and the field.
C27_UnsupportedRejected ==
  [][/\ \A q \in TopLevelUnsupported :
          QueryOrCountOf(q)
            => /\ ~last'.ok
               /\ last'.err = <<"Unsupported top-level operator", SAnd>>
               /\ store' = store
     /\ \A q \in FieldUnsupported :
          QueryOrCountOf(q)
            => /\ ~last'.ok
               /\ NamesOperator(last'.err, "$regex", FA)
               /\ store' = store]_vars

\* a query with an unsupported per-field operator has been rejected, with an error
\* that names the operator and the field, while documents were stored
C27_RegexRejected ==
  /\ last.op = "query"
  /\ ~last.ok
  /\ NamesOperator(last.err, "$regex", FA)
  /\ StoredDocuments(store) # {}

---------------------------------------------------------------------------
(* The order of the writes of a call.                                      *)

\* C28 (as claimed): with a single writer, at every intermediate state the index
\* entries stored for an id are a subset of those derivable from the document stored
\* under that id: entries may be missing, never stale or dangling.
C28_IndexWithinDerivable ==
  \A id \in KnownIds : IndexKeysOf(store, id) \subseteq DerivableKeys(store, id)

---------------------------------------------------------------------------
(* The counters.                                                           *)

\* what a read of the counter gives: its number, 0 when absent or unparsable
ReadsAs(st) ==
  IF IncKey \in DOMAIN st /\ st[IncKey].t = "text" /\ IsDigits(st[IncKey].s)
  THEN DigitsVal(st[IncKey].s) ELSE 0

\* the steps of a call of incrementCount
IncrementStep ==
  /\ (IsCounting /\ flight.pc = "read" /\ flight' # Idle /\ flight'.pc = "write")
       => flight'.currentCount = ReadsAs(store)
  /\ (IsCounting /\ faults' # faults)
       => flight' # Idle /\ flight'.pc = "read" /\ flight'.attempts = flight.attempts + 1
  /\ (IsCounting /\ flight' # Idle /\ flight'.pc = "done" /\ flight.pc # "done")
       => /\ store' = Put(store, IncKey, Text(NumToStr(flight.currentCount + 1)))
          /\ flight'.writes = 1
  /\ (IsCounting /\ flight' # flight /\ flight' # Idle /\ flight'.pc # "done")
       => store' = store
  /\ (IsCounting /\ flight' = Idle)
       => /\ store' = store
          /\ last'.op = "incrementCount"
          /\ last'.ok <=> (flight.pc = "done" /\ flight.writes = 1)

\* C29: incrementCount reads the counter anew on every attempt (absent or unparsable
\* reads as 0), goes to the next attempt when the store reports a conflict, returns
\* after exactly one successful write of the value read plus one, terminates once the
\* store stops reporting conflicts, and ends with the error on any other store error.
C29_IncrementRetriesUntilWritten ==
  /\ [][IncrementStep]_vars
  /\ IsCounting ~> ~IsCounting

\* a call is about to return whose write succeeded on a later attempt than the first
C29_WrittenAfterConflict ==
  /\ IsCounting
  /\ flight.pc = "done"
  /\ flight.attempts > 1
  /\ flight.writes = 1

\* C30 (as claimed): in every reachable state every counter key present in the store,
\* per-value counter or total, holds a positive integer: never 0, a negative number
\* or a non-numeric string.
C30_CountersPositive ==
  \A k \in DOMAIN store :
    IsCountKey(k) => /\ store[k].t = "text"
                     /\ store[k].s # <<>>
                     /\ IsDigits(store[k].s)
                     /\ DigitsVal(store[k].s) > 0

---------------------------------------------------------------------------
(* Retraction on its own, and overlapping calls.                           *)

\* the index keys removeIndexesForDocument(id, document) deletes
KeysToRetract(id, document) ==
  {OpIndexKey(op, id) : op \in IndexOps(insertRecord(id, document), <<>>)}

\* C31 (as claimed): removeIndexesForDocument applied to a document whose index entries
\* are already absent does not fail and leaves the store, index entries and counters,
\* exactly as it was.
C31_RetractIdempotent ==
  [][\A id \in KnownIds, d \in BatchDocs :
       (last'.op = "removeIndexesForDocument" /\ Retract(id, d)
          /\ KeysToRetract(id, d) \cap DOMAIN store = {})
         => store' = store]_vars

\* the call of caller c was op and has returned without an error
HasDone(c, op) ==
  /\ flight.calls[c] # Idle
  /\ flight.calls[c].st = "done"
  /\ flight.calls[c].op = op
  /\ flight.calls[c].ret.ok

\* the only calls on the empty store were two inserts of {a: 5} under different ids,
\* one by each caller, and both have returned
BothInserted == flight.started = 2 /\ HasDone(1, "insert") /\ HasDone(2, "insert")

\* C32 (as claimed): counters are not protected against concurrent writers.  Once two
\* inserts that add a = 5 for different ids have both returned, both index entries exist
\* and query({a: 5}) returns two documents, while count({a: 5}) is 1 or 2: it is never
\* more than the entries, and it is less when one increment was lost.
C32_CounterMayLagEntries ==
  BothInserted =>
    /\ Len(query(store, QA5, NoOptions).docs) = 2
    /\ Cardinality({k \in DOMAIN store : IsIndexKey(k) /\ StartsWith(k, indexKey(<<>>, FA, <<53>>, <<>>))}) = 2
    /\ count(store, QA5).err = <<>>
    /\ count(store, QA5).n \in 1..2

\* both inserts returned, two entries exist and the counter was raised by one only
C32_LostUpdate ==
  /\ BothInserted
  /\ Len(query(store, QA5, NoOptions).docs) = 2
  /\ count(store, QA5) = Count(1)

\* the call of caller c was a replace, a patch or an upsert and has returned its record
HasUpdated(c) ==
  /\ flight.calls[c] # Idle
  /\ flight.calls[c].st = "done"
  /\ flight.calls[c].op \in {"replace", "patch", "upsert"}
  /\ flight.calls[c].ret.ok
RecordOf(c) == flight.calls[c].ret.ret.o

\* the only calls started were two updates of the same id, and both have returned
BothUpdated == flight.started = 2 /\ HasUpdated(1) /\ HasUpdated(2)

\* the index keys addToIndexes writes for a record
RecordKeys(id, record) == {OpIndexKey(op, id) : op \in IndexOps(record, <<>>)}

\* C33 (as claimed): two overlapping replace, patch or upsert calls on the same id can
\* both complete and leave an index entry derived from the overwritten document.  Once
\* both have returned, the stored document is the record of one of them, and every index
\* entry of the id is one that the record of one of the two calls gives: of the stored
\* one or of the overwritten one, never of the document they both retracted.
C33_EntriesOfEitherRecord ==
  \A id \in ExplicitIds :
    (BothUpdated /\ flight.calls[1].id = id /\ flight.calls[2].id = id) =>
      /\ Has(store, id)
      /\ \E w \in Callers : store[id].doc = RecordOf(w)
      /\ IndexKeysOf(store, id) \subseteq
           RecordKeys(id, RecordOf(1)) \cup RecordKeys(id, RecordOf(2))

\* both updates returned, and an entry of the overwritten record is left that the stored
\* document does not give
C33_StaleEntry ==
  \E id \in ExplicitIds, w \in Callers, l \in Callers :
    /\ BothUpdated /\ flight.calls[1].id = id /\ flight.calls[2].id = id
    /\ Has(store, id)
    /\ store[id].doc = RecordOf(w)
    /\ RecordOf(l) # RecordOf(w)
    /\ \E k \in IndexKeysOf(store, id) \ DerivableKeys(store, id) : k \in RecordKeys(id, RecordOf(l))

\* the call of caller c was an insert and has returned or thrown
InsertEnded(c) ==
  /\ flight.calls[c] # Idle
  /\ flight.calls[c].st = "done"
  /\ flight.calls[c].op = "insert"

\* C36 (as claimed): of two overlapping insert calls that carry the same explicit id, at
\* most one succeeds and the other fails with 'already exists'; after both have
\* returned, the total counter does not exceed the number of stored documents.
C36_OneInsertWins ==
  (flight.started = 2 /\ InsertEnded(1) /\ InsertEnded(2)
     /\ flight.calls[1].id = flight.calls[2].id) =>
    /\ \E c \in Callers : ~flight.calls[c].ret.ok
    /\ \A c \in Callers :
         ~flight.calls[c].ret.ok => flight.calls[c].ret.err = <<"already exists">>
    /\ getTotalCount(store) <= Cardinality(DocIds(store))

\* no call is running
AllReturned == \A c \in Callers : ~IsRunning(c)

\* what the call of caller c leaves for its id when it runs alone: nothing after a
\* remove, the record it returned and the entries of that record after an insert,
\* a replace, a patch or an upsert
LeftAsAlone(c) ==
  LET call == flight.calls[c] IN
  IF call.op = "remove"
  THEN ~Has(store, call.id) /\ IndexKeysOf(store, call.id) = {}
  ELSE /\ Has(store, call.id)
       /\ store[call.id].doc = RecordOf(c)
       /\ IndexKeysOf(store, call.id) = RecordKeys(call.id, RecordOf(c))

\* C37 (as claimed): overlapping mutations on different ids do not disturb each other's
\* documents or index entries.  With each caller working on an id of its own, once all
\* calls have returned every id has the document and the index entries that its
\* caller's last call leaves when it runs alone, and the index entries of every id are
\* those its stored document gives; only counters may differ.
C37_OwnIdsUndisturbed ==
  AllReturned =>
    /\ \A id \in KnownIds : IndexKeysOf(store, id) = DerivableKeys(store, id)
    /\ \A c \in Callers :
         (flight.calls[c] # Idle /\ flight.calls[c].ret.ok) => LeftAsAlone(c)

\* a replace of one id and a remove of another overlapped: one of the two decrements of
\* the counter of a = 5 was lost, and documents and index entries are as after the two
\* calls in sequence
C37_OverlappedOnOwnIds ==
  /\ flight.started = 2
  /\ HasDone(1, "replace") /\ HasDone(2, "remove")
  /\ CountOf(store, countKey(<<>>, FA, <<53>>)) = 1
  /\ LeftAsAlone(1) /\ LeftAsAlone(2)

---------------------------------------------------------------------------
(* Documents that vanish under a query.                                    *)

\* the ids of the id-set whose documents are still stored
StillStored(st, got) == [got EXCEPT !.ids = SelectSeq(got.ids, LAMBDA id : Has(st, id))]

\* C34 (as claimed): query never fails because a matching document was removed between
\* the computation of the id-set and the reading of the documents: the ids of vanished
\* documents are dropped and the remaining documents are returned, with or without the
\* sort and project options.
C34_VanishedDropped ==
  [][(flight # Idle /\ flight.op = "query" /\ flight.got.err = <<>> /\ ReadResults) =>
       /\ last'.ok
       /\ last'.ret = Arr(resultsOf(store, StillStored(store, flight.got), flight.options).docs)]_vars

---------------------------------------------------------------------------
(* The index key as a code of field path, value and id.                    *)

\* the (field path, value, id) triples of the stored documents, the value in its string
\* form, and the key addToIndexes builds for a triple
StoredTriples(st) ==
  {<<leaf[1], leaf[2], id>> : leaf \in UNION {Leaves(st[i].doc, <<>>) : i \in DocIds(st)},
                              id \in DocIds(st)}
    \cap UNION {{<<leaf[1], leaf[2], id>> : leaf \in Leaves(st[id].doc, <<>>)} : id \in DocIds(st)}
KeyOf(t) == indexKey(<<>>, t[1], t[2], t[3])

\* C35 (as claimed): index keys are decodable and unambiguous: splitting the key built by
\* addToIndexes at its first '=' and at the following '|' gives back the string form of
\* the value, two different (field path, value, id) triples never produce the same key,
\* and for a fixed field path and value the keys sort purely by id.
C35_KeysDecodable ==
  \A t \in StoredTriples(store) :
    /\ KeyOf(t) \in DOMAIN store
    /\ lvalueOf(KeyOf(t)) = t[2]
    /\ \A u \in StoredTriples(store) :
         /\ t # u => KeyOf(t) # KeyOf(u)
         /\ (t[1] = u[1] /\ t[2] = u[2]) => (StrLess(KeyOf(t), KeyOf(u)) <=> StrLess(t[3], u[3]))

---------------------------------------------------------------------------
(* What a failed batchInsert leaves of the documents stored before it.     *)

\* the counters the document stored under id contributes to
CountersOf(st, id) == {SCounts \o SDot \o e[1] \o SEq \o e[2] : e \in Leaves(st[id].doc, <<>>)}

\* C38 (as claimed): a batchInsert call that fails leaves every document that was stored
\* before the call, together with its index entries and the counters it contributes to,
\* unchanged, also a document whose id appears in the failed batch, and whether the
\* failure happened before or after the document batch was written.
C38_FailedBatchKeepsStored ==
  [][\A documents \in Batches :
       (last'.op = "batchInsert" /\ ~last'.ok /\ BatchInsert(documents)) =>
         \A id \in DocIds(store) :
           /\ Has(store', id)
           /\ store'[id] = store[id]
           /\ IndexKeysOf(store', id) = IndexKeysOf(store, id)
           /\ \A ck \in CountersOf(store, id) : CountOf(store', ck) = CountOf(store, ck)]_vars

---------------------------------------------------------------------------
(* The sign of a count.                                                    *)

\* C39 (as claimed): count(Q) never returns a negative number, for any supported query Q
\* and any store reached by completed, non-overlapping operations, also for $ne and $nin
\* on array fields and for $exists: false.
C39_CountNotNegative ==
  (last.op = "count" /\ last.ok) => last.ret.n >= 0

===========================================================================
